---- MODULE Spec2Model ----
(***************************************************************************)
(* Model of footStepMeter (React Native): the footprint collection store,  *)
(* the route store and the location pipeline that feeds the store.         *)
(*                                                                         *)
(* A nullable value (T | null) is a sequence of length at most one:        *)
(* <<>> is null and <<v>> is the value v.                                  *)
(***************************************************************************)
EXTENDS Integers, Sequences, FiniteSets, TLC

\* ---------------------------------------------------------------- bounds
MaxPoints == 3      \* cap on the length of locationPoints
MaxClock == 2       \* cap on the wall clock
HistLen == 4        \* number of most recent calls kept in the call log
MaxRoutes == 3      \* cap on the length of routes
MaxRows == 3        \* cap on the number of rows of the footprints table
MaxRowId == 4       \* cap on the AUTOINCREMENT counter of the footprints table
MaxInsert == 2      \* cap on the number of points of one createFootprint call
MaxInstances == 3   \* cap on the number of store instances (both stores)
MaxOwn == 2         \* cap on the length of the lists of a store instance
MaxLoads == 2       \* cap on the number of loadRoutes calls in flight
MaxStarts == 2      \* cap on the number of startCollection calls made
MaxStops == 1       \* cap on the number of stopCollection calls in flight

\* ------------------------------------------------------ nullable helpers
Null == <<>>
Some(v) == <<v>>
IsNull(x) == x = <<>>
Val(x) == x[1]

VARIABLES
    \* footprintStore (FootprintState)
    isCollecting, startTime, locationPoints, currentLocation, currentSpeed,
    \* routeStore (RouteState)
    routes, routeMap,
    \* LocationService.events is set; useLocationCollection hook state: error
    events, error,
    \* environment: wall clock read by new Date()
    now,
    \* history: names of the most recent calls, the last return value
    calls, returned,
    \* the last function applied, its argument and its outcome
    fn, arg, out,
    \* StorageService.database, the progress of initialize(), and the SQLite
    \* file: the footprints table, its rows and its AUTOINCREMENT counter;
    \* sqlCalls counts the calls the last operation made into SQLite
    database, initPc, initDone, tableCreated, rows, nextId, sqlCalls,
    \* history: the route id each label had in the last successful fetchFootprints
    fetched,
    \* store instances made by createFootprintStore / createRouteStore and the
    \* module-level initialState objects they spread
    fpInst, rtInst, shared,
    \* the calls the last operation made into the APIs injected into its
    \* service (file system, mail composer), in order
    effects,
    \* useFootprintManagement: storageServiceRef.current is set, state.error
    storageServiceRef, managementError,
    \* LocationService: this.config (the stored object, by identity), status and
    \* locationSubscription; heap holds the configuration objects: the one
    \* the caller passed, the one the service stores, the one getConfig
    \* returned
    storedConfig, status, locationSubscription, heap,
    \* useFootprintManagement: state.isLoading, state.routes, and the number
    \* of loadRoutes calls whose fetchFootprints has not settled yet
    isLoading, stateRoutes, loadsInFlight,
    \* useLocationCollection: the startTracking calls that are awaiting the
    \* platform (each by the await it is at), the stopCollection
    \* calls awaiting stopTracking (oldest first), the number of position
    \* watches the platform holds
    \* (created and not removed), and history: the last stopCollection was
    \* called while a start was in flight and no startCollection came after
    startsInFlight, stopsInFlight, activeWatches, overtaken

storeVars == <<isCollecting, startTime, locationPoints, currentLocation, currentSpeed>>
routeVars == <<routes, routeMap>>
hookVars == <<events, error>>
callVars == <<fn, arg, out>>
dbVars == <<database, initPc, initDone, tableCreated, rows, nextId, sqlCalls, fetched>>
instVars == <<fpInst, rtInst, shared>>
mgmtVars == <<storageServiceRef, managementError>>
locVars == <<storedConfig, status, locationSubscription, heap>>
loadVars == <<isLoading, stateRoutes, loadsInFlight>>
watchVars == <<startsInFlight, stopsInFlight, activeWatches, overtaken>>
svcVars == <<effects, mgmtVars, locVars, loadVars, watchVars>>
vars == <<isCollecting, startTime, locationPoints, currentLocation, currentSpeed,
          routes, routeMap, events, error, now, calls, returned,
          fn, arg, out,
          database, initPc, initDone, tableCreated, rows, nextId, sqlCalls, fetched,
          fpInst, rtInst, shared,
          effects, storageServiceRef, managementError,
          storedConfig, status, locationSubscription, heap,
          isLoading, stateRoutes, loadsInFlight,
          startsInFlight, stopsInFlight, activeWatches, overtaken>>

\* --------------------------------------------------------- footprintStore
\* The five fields of the store as one value, for comparisons.
FootprintState ==
    [isCollecting |-> isCollecting, startTime |-> startTime,
     locationPoints |-> locationPoints, currentLocation |-> currentLocation,
     currentSpeed |-> currentSpeed]

initialState ==
    [isCollecting |-> FALSE, startTime |-> Null, locationPoints |-> <<>>,
     currentLocation |-> Null, currentSpeed |-> Null]

SetState(s) ==
    /\ isCollecting' = s.isCollecting
    /\ startTime' = s.startTime
    /\ locationPoints' = s.locationPoints
    /\ currentLocation' = s.currentLocation
    /\ currentSpeed' = s.currentSpeed

\* startCollecting: {...state, isCollecting: true, startTime: new Date()}
startCollecting ==
    SetState([FootprintState EXCEPT !.isCollecting = TRUE, !.startTime = Some(now)])

\* Variant: stop only clears the flag and the start time.
stopCollecting_KeepsPoints ==
    SetState([FootprintState EXCEPT !.isCollecting = FALSE, !.startTime = Null])

\* stopCollecting: {...initialState}
stopCollecting == SetState(initialState)

\* reset: {...initialState}
reset == SetState(initialState)

\* Variant: the isCollecting guard is missing.
addLocationPoint_NoGuard(location) ==
    SetState([FootprintState EXCEPT
                 !.locationPoints = Append(locationPoints, location),
                 !.currentLocation = Some(location),
                 !.currentSpeed = location.speed])

\* Variant: currentSpeed is only overwritten by a non-null speed.
addLocationPoint_StaleSpeed(location) ==
    IF ~isCollecting
    THEN SetState(FootprintState)
    ELSE SetState([FootprintState EXCEPT
                      !.locationPoints = Append(locationPoints, location),
                      !.currentLocation = Some(location),
                      !.currentSpeed = IF location.speed = Null THEN currentSpeed
                                       ELSE location.speed])

\* Variant: the new point is put in front ([location, ...state.locationPoints]).
addLocationPoint_Prepend(location) ==
    IF ~isCollecting
    THEN SetState(FootprintState)
    ELSE SetState([FootprintState EXCEPT
                      !.locationPoints = <<location>> \o locationPoints,
                      !.currentLocation = Some(location),
                      !.currentSpeed = location.speed])

\* addLocationPoint: guard on isCollecting, then append and mirror.
addLocationPoint(location) ==
    IF ~isCollecting
    THEN SetState(FootprintState)
    ELSE SetState([FootprintState EXCEPT
                      !.locationPoints = Append(locationPoints, location),
                      !.currentLocation = Some(location),
                      !.currentSpeed = location.speed])


\* ------------------------------------------------------------- routeStore
\* Route values handed to the store: id, name and startTime are the fields
\* the store reads.
RouteIds == {"route-1", "route-2"}
RouteNames == {"Morning Walk", "Evening Jog"}
RouteValues == [id : RouteIds, name : RouteNames, startTime : {1, 2}]

\* Map<string, Route>
EmptyMap == [k \in {} |-> k]
MapSet(m, k, v) == [x \in DOMAIN m \cup {k} |-> IF x = k THEN v ELSE m[x]]
MapDelete(m, ks) == [x \in DOMAIN m \ ks |-> m[x]]

\* Comparator of sortRoutesByTime: b.startTime.getTime() - a.startTime.getTime()
CompareRoutes_Ascending(a, b) == a.startTime - b.startTime

CompareRoutes(a, b) == b.startTime - a.startTime

\* Array.prototype.sort is stable: an element goes behind every element that
\* does not compare greater than it.
RECURSIVE InsertSorted(_, _)
InsertSorted(sorted, r) ==
    IF sorted = <<>> THEN <<r>>
    ELSE IF CompareRoutes(Head(sorted), r) <= 0
         THEN <<Head(sorted)>> \o InsertSorted(Tail(sorted), r)
         ELSE <<r>> \o sorted

RECURSIVE SortFrom(_, _)
SortFrom(sorted, rest) ==
    IF rest = <<>> THEN sorted
    ELSE SortFrom(InsertSorted(sorted, Head(rest)), Tail(rest))

sortRoutesByTime(rs) == SortFrom(<<>>, rs)

\* addRoute: append, sort, Map.set(route.id, route)
addRoute(route) ==
    /\ routes' = sortRoutesByTime(Append(routes, route))
    /\ routeMap' = MapSet(routeMap, route.id, route)

getAllRoutes == routes

getRoutesByTitle(title) == SelectSeq(routes, LAMBDA r : r.name = title)

getRouteCount == Len(routes)

\* Variant: only the first matching route is removed.
RECURSIVE DropFirst(_, _)
DropFirst(rs, title) ==
    IF rs = <<>> THEN <<>>
    ELSE IF Head(rs).name = title THEN Tail(rs)
         ELSE <<Head(rs)>> \o DropFirst(Tail(rs), title)

deleteRouteByTitle_FirstOnly(title) ==
    LET routesToDelete == SelectSeq(routes, LAMBDA r : r.name = title) IN
    IF Len(routesToDelete) = 0
    THEN /\ UNCHANGED routeVars
         /\ returned' = Some(FALSE)
    ELSE /\ routeMap' = MapDelete(routeMap, {Head(routesToDelete).id})
         /\ routes' = DropFirst(routes, title)
         /\ returned' = Some(TRUE)

\* deleteRouteByTitle: returns false without a set() when nothing matches.
deleteRouteByTitle(title) ==
    LET routesToDelete == SelectSeq(routes, LAMBDA r : r.name = title) IN
    IF Len(routesToDelete) = 0
    THEN /\ UNCHANGED routeVars
         /\ returned' = Some(FALSE)
    ELSE /\ routeMap' = MapDelete(routeMap,
                           {routesToDelete[i].id : i \in 1..Len(routesToDelete)})
         /\ routes' = SelectSeq(routes, LAMBDA r : r.name # title)
         /\ returned' = Some(TRUE)


\* ------------------------------------------------- utils/coordinates
MAX_LATITUDE == 90
MAX_LONGITUDE == 180

Abs(x) == IF x < 0 THEN -x ELSE x

isValidLatitude(latitude) == Abs(latitude) <= MAX_LATITUDE

isValidLongitude(longitude) == Abs(longitude) <= MAX_LONGITUDE

isValidCoordinate(latitude, longitude) ==
    isValidLatitude(latitude) /\ isValidLongitude(longitude)

\* -------------------------------------------------------- LocationService
\* Raw location events of the provider.  coords is null when the event has
\* no coords; a field that is null is missing or not a number.
RawCoords ==
    [latitude : {Null, Some(0), Some(91)}, longitude : {Some(0), Some(-181)},
     accuracy : {Null, Some(-1)}, speed : {Null, Some(-1)},
     heading : {Some(90), Some(361)}]

RawFixes ==
    [coords : {Null}, timestamp : {Some(1000)}]
        \cup [coords : {Some(c) : c \in RawCoords}, timestamp : {Null, Some(0), Some(1000)}]

\* validateLocationData: coords present, latitude and longitude numbers in
\* range, timestamp a number > 0.
validateLocationData(locationData) ==
    IF locationData.coords = Null THEN FALSE
    ELSE LET coords == Val(locationData.coords)
             timestamp == locationData.timestamp IN
         /\ coords.latitude # Null
         /\ coords.longitude # Null
         /\ isValidCoordinate(Val(coords.latitude), Val(coords.longitude))
         /\ timestamp # Null
         /\ Val(timestamp) > 0

\* transformLocationData: accuracy is coords.accuracy || 0, speed and heading
\* are copied as they are.
transformLocationData(locationData) ==
    LET coords == Val(locationData.coords) IN
    [latitude |-> Val(coords.latitude),
     longitude |-> Val(coords.longitude),
     timestamp |-> Val(locationData.timestamp),
     accuracy |-> IF coords.accuracy = Null \/ Val(coords.accuracy) = 0
                  THEN 0 ELSE Val(coords.accuracy),
     speed |-> coords.speed,
     heading |-> coords.heading]

\* emitError: this.events?.onError(error); the hook's handler stores the message.
emitError(message) ==
    error' = IF events THEN Some(message) ELSE error

\* handleLocationUpdate: reject with an error, or transform and hand the
\* point to the hook's handler, which calls footprintStore.addLocationPoint.
handleLocationUpdate(locationData) ==
    IF ~validateLocationData(locationData)
    THEN /\ emitError("Invalid location data received")
         /\ UNCHANGED storeVars
    ELSE /\ IF events
            THEN addLocationPoint(transformLocationData(locationData))
            ELSE UNCHANGED storeVars
         /\ UNCHANGED error

setEventHandlers == events' = TRUE

\* ------------------------------------------------------------ JS numbers
\* A JavaScript number is an integer of the model or NaN. NaN is a reserved
\* value outside every range of the model; the relational operators of
\* JavaScript are false as soon as one operand is NaN.
NaN == 999999
IsNaN(x) == x = NaN
JsLt(a, b) == ~IsNaN(a) /\ ~IsNaN(b) /\ a < b
JsGt(a, b) == ~IsNaN(a) /\ ~IsNaN(b) /\ a > b
JsGe(a, b) == ~IsNaN(a) /\ ~IsNaN(b) /\ a >= b
JsLe(a, b) == ~IsNaN(a) /\ ~IsNaN(b) /\ a <= b

\* Infinity is a reserved value above every finite number of the model and
\* -Infinity its negation, so that they compare as in JavaScript.
Infinity == 999998
isFinite(x) == x \notin {NaN, Infinity, -Infinity}

\* ------------------------------------------------- types/location (validation)
\* GPS_ACCURACY as the source declares it.
GPS_ACCURACY ==
    [BEST |-> "best", NEAREST_TEN_METERS |-> "nearest-ten-meters",
     HUNDRED_METERS |-> "hundred-meters", KILOMETER |-> "kilometer",
     THREE_KILOMETERS |-> "three-kilometers"]

\* GPS_ACCURACY.<key>: a property the object lacks reads as undefined.
GpsAccuracyProp(key) ==
    IF key \in DOMAIN GPS_ACCURACY THEN GPS_ACCURACY[key] ELSE "undefined"

\* new Set(Object.values(GPS_ACCURACY))
VALID_GPS_ACCURACIES == {GPS_ACCURACY[k] : k \in DOMAIN GPS_ACCURACY}

validateGPSAccuracy(accuracy) == accuracy \in VALID_GPS_ACCURACIES

ValidationOk == [isValid |-> TRUE, error |-> Null]
ValidationError(code, field) ==
    [isValid |-> FALSE, error |-> Some([code |-> code, field |-> field])]

validateGPSAccuracyDetailed(accuracy) ==
    IF ~validateGPSAccuracy(accuracy)
    THEN ValidationError("INVALID_GPS_ACCURACY", "accuracy")
    ELSE ValidationOk

\* A faulty variant: it checks accuracy before longitude.
validateLocationPointDetailed_AccuracyFirst(location) ==
    IF ~isValidLatitude(location.latitude)
    THEN ValidationError("LATITUDE_OUT_OF_RANGE", "latitude")
    ELSE IF JsLt(location.accuracy, 0)
    THEN ValidationError("NEGATIVE_ACCURACY", "accuracy")
    ELSE IF ~isValidLongitude(location.longitude)
    THEN ValidationError("LONGITUDE_OUT_OF_RANGE", "longitude")
    ELSE IF location.speed # Null /\ JsLt(Val(location.speed), 0)
    THEN ValidationError("NEGATIVE_SPEED", "speed")
    ELSE IF location.heading # Null
            /\ (JsLt(Val(location.heading), 0) \/ JsGt(Val(location.heading), 360))
    THEN ValidationError("INVALID_HEADING", "heading")
    ELSE ValidationOk

validateLocationPointDetailed(location) ==
    IF ~isValidLatitude(location.latitude)
    THEN ValidationError("LATITUDE_OUT_OF_RANGE", "latitude")
    ELSE IF ~isValidLongitude(location.longitude)
    THEN ValidationError("LONGITUDE_OUT_OF_RANGE", "longitude")
    ELSE IF JsLt(location.accuracy, 0)
    THEN ValidationError("NEGATIVE_ACCURACY", "accuracy")
    ELSE IF location.speed # Null /\ JsLt(Val(location.speed), 0)
    THEN ValidationError("NEGATIVE_SPEED", "speed")
    ELSE IF location.heading # Null
            /\ (JsLt(Val(location.heading), 0) \/ JsGt(Val(location.heading), 360))
    THEN ValidationError("INVALID_HEADING", "heading")
    ELSE ValidationOk

validateLocationPoint(location) == validateLocationPointDetailed(location).isValid

\* Samples handed to the validators: boundaries, both sides of each, NaN.
ValidationInputs ==
    [latitude : {-91, -90, 90, 91, NaN}, longitude : {-180, 180, 181},
     accuracy : {-1, 0, NaN}, speed : {Null, Some(-1), Some(0), Some(NaN)},
     heading : {Null, Some(-1), Some(0), Some(360), Some(361), Some(NaN)}]

\* ------------------------------------- LocationService (configuration)
\* accuracyMap: an object literal with six computed keys, written in order;
\* a key that evaluates to undefined becomes the property "undefined".
accuracyMap ==
    MapSet(MapSet(MapSet(MapSet(MapSet(MapSet(EmptyMap,
        GpsAccuracyProp("BEST_FOR_NAVIGATION"), 1),
        GpsAccuracyProp("BEST"), 2),
        GpsAccuracyProp("NEAREST_TEN_METERS"), 3),
        GpsAccuracyProp("HUNDRED_METERS"), 4),
        GpsAccuracyProp("KILOMETER"), 5),
        GpsAccuracyProp("THREE_KILOMETERS"), 6)

validGPSAccuracies == {GPS_ACCURACY[k] : k \in DOMAIN GPS_ACCURACY}

\* undefined is Null.
mapGPSAccuracyToExpo(gpsAccuracy) ==
    IF gpsAccuracy \in DOMAIN accuracyMap THEN Some(accuracyMap[gpsAccuracy]) ELSE Null

\* An optional numeric field is Null when absent (undefined), <<n>> when it
\* is the number n and a pair when it is of another type than number;
\* enableBackground that is not a boolean is Null.
NotANumber == <<0, 0>>

IntervalOk(interval) ==
    ~(interval # Null /\ (Len(interval) # 1 \/ JsLt(Val(interval), 0)))

validateConfig(config) ==
    IF config = Null THEN FALSE
    ELSE IF ~(Val(config).accuracy \in validGPSAccuracies) THEN FALSE
    ELSE IF Val(config).enableBackground = Null THEN FALSE
    ELSE IF ~IntervalOk(Val(config).distanceInterval) THEN FALSE
    ELSE IF ~IntervalOk(Val(config).timeInterval) THEN FALSE
    ELSE TRUE

AccuracyInputs ==
    {"best-for-navigation", "best", "nearest-ten-meters", "hundred-meters",
     "kilometer", "three-kilometers", "undefined", "high", ""}

ConfigInputs ==
    {Null} \cup
    {Some(c) : c \in [accuracy : AccuracyInputs,
                      enableBackground : {Null, Some(TRUE)},
                      distanceInterval : {Null, Some(-1), Some(0), NotANumber},
                      timeInterval : {Null, Some(-1)}]}

\* ------------------------------------------------- utils/calculations
\* An angle is kept in microdegrees plus tenths of a microdegree:
\* [micro |-> m, tenth |-> t] is (m + t/10) * 10^-6 degrees, 0 <= t <= 9.
MICRO == 1000000

\* bearingDeg + 360
AddDegrees(a, d) == [micro |-> a.micro + d * MICRO, tenth |-> a.tenth]

\* x % 360 for x >= 0 (bearingDeg >= -180, so bearingDeg + 360 is positive)
RemDegrees(a, d) == [micro |-> a.micro % (d * MICRO), tenth |-> a.tenth]

\* Math.round(x * 1000000) / 1000000, the result in microdegrees: halves go up.
RoundToMicro(a) == a.micro + (IF a.tenth >= 5 THEN 1 ELSE 0)

Failure(code, field) == [ok |-> FALSE, error |-> [code |-> code, field |-> field]]
Success(value) == [ok |-> TRUE, value |-> value]

\* A coordinate is kept in whole degrees plus a small non-negative offset:
\* [deg |-> d, sub |-> s] is d + s * 10^-11 degrees; NaN and the infinities
\* are [deg |-> NaN, sub |-> 0] and so on.
Coord(d, s) == [deg |-> d, sub |-> s]

\* EPSILON = 1e-10 in units of the offset
EPSILON == 10

\* Math.abs(c) > max, max in whole degrees
AbsExceeds(c, max) == c.deg > max \/ (c.deg = max /\ c.sub > 0) \/ c.deg < -max

\* Math.abs(a - b) < EPSILON: the offsets stay far below one degree
WithinEpsilon(a, b) == a.deg = b.deg /\ Abs(a.sub - b.sub) < EPSILON

\* validateLocationPoint(point, paramName) of utils/calculations: Null when
\* the point passes, otherwise the error thrown. A missing point is Null.
validateGeoPoint(point, paramName) ==
    IF point = Null THEN Some([code |-> "INVALID_TYPE", field |-> paramName])
    ELSE IF ~isFinite(Val(point).latitude.deg) \/ IsNaN(Val(point).latitude.deg)
    THEN Some([code |-> "INVALID_VALUE", field |-> paramName \o ".latitude"])
    ELSE IF ~isFinite(Val(point).longitude.deg) \/ IsNaN(Val(point).longitude.deg)
    THEN Some([code |-> "INVALID_VALUE", field |-> paramName \o ".longitude"])
    ELSE IF AbsExceeds(Val(point).latitude, 90)
    THEN Some([code |-> "LATITUDE_OUT_OF_RANGE", field |-> paramName \o ".latitude"])
    ELSE IF AbsExceeds(Val(point).longitude, 180)
    THEN Some([code |-> "LONGITUDE_OUT_OF_RANGE", field |-> paramName \o ".longitude"])
    ELSE Null

arePointsEqual(from, to) ==
    /\ WithinEpsilon(from.latitude, to.latitude)
    /\ WithinEpsilon(from.longitude, to.longitude)

\* A faulty variant: it validates 'to' before 'from'.
calculateDistance_ToFirst(from, to, haversine) ==
    IF validateGeoPoint(to, "to") # Null
    THEN [ok |-> FALSE, error |-> Val(validateGeoPoint(to, "to"))]
    ELSE IF validateGeoPoint(from, "from") # Null
    THEN [ok |-> FALSE, error |-> Val(validateGeoPoint(from, "from"))]
    ELSE IF arePointsEqual(Val(from), Val(to))
    THEN Success(0)
    ELSE Success(IF haversine > 0 THEN haversine ELSE 0)

\* calculateDistance; haversine stands for R * centralAngleRad, which the
\* model takes as an input; the result is Math.max(0, haversine).
calculateDistance(from, to, haversine) ==
    IF validateGeoPoint(from, "from") # Null
    THEN [ok |-> FALSE, error |-> Val(validateGeoPoint(from, "from"))]
    ELSE IF validateGeoPoint(to, "to") # Null
    THEN [ok |-> FALSE, error |-> Val(validateGeoPoint(to, "to"))]
    ELSE IF arePointsEqual(Val(from), Val(to))
    THEN Success(0)
    ELSE Success(IF haversine > 0 THEN haversine ELSE 0)

\* A faulty variant: it tests the signs before the finiteness of the time.
calculateSpeed_SignFirst(distanceInMeters, timeInSeconds) ==
    IF ~isFinite(distanceInMeters) \/ IsNaN(distanceInMeters)
    THEN Failure("INVALID_VALUE", "distanceInMeters")
    ELSE IF JsLt(distanceInMeters, 0)
    THEN Failure("NEGATIVE_VALUE", "distanceInMeters")
    ELSE IF ~isFinite(timeInSeconds) \/ IsNaN(timeInSeconds)
    THEN Failure("INVALID_VALUE", "timeInSeconds")
    ELSE IF JsLe(timeInSeconds, 0)
    THEN Failure("ZERO_OR_NEGATIVE_VALUE", "timeInSeconds")
    ELSE Success((2 * distanceInMeters * 3600 * (MICRO \div 1000) + timeInSeconds)
                    \div (2 * timeInSeconds))

\* calculateSpeed. The result is in units of 10^-6 km/h:
\* Math.round(((d / t) * 3600 / 1000) * 1000000), halves going up.
calculateSpeed(distanceInMeters, timeInSeconds) ==
    IF ~isFinite(distanceInMeters) \/ IsNaN(distanceInMeters)
    THEN Failure("INVALID_VALUE", "distanceInMeters")
    ELSE IF ~isFinite(timeInSeconds) \/ IsNaN(timeInSeconds)
    THEN Failure("INVALID_VALUE", "timeInSeconds")
    ELSE IF JsLt(distanceInMeters, 0)
    THEN Failure("NEGATIVE_VALUE", "distanceInMeters")
    ELSE IF JsLe(timeInSeconds, 0)
    THEN Failure("ZERO_OR_NEGATIVE_VALUE", "timeInSeconds")
    ELSE Success((2 * distanceInMeters * 3600 * (MICRO \div 1000) + timeInSeconds)
                    \div (2 * timeInSeconds))

\* calculateDirection; bearingDeg stands for toDegrees(Math.atan2(y, x)),
\* which the model takes as an input in [-180, 180].
calculateDirection(from, to, bearingDeg) ==
    IF validateGeoPoint(from, "from") # Null
    THEN [ok |-> FALSE, error |-> Val(validateGeoPoint(from, "from"))]
    ELSE IF validateGeoPoint(to, "to") # Null
    THEN [ok |-> FALSE, error |-> Val(validateGeoPoint(to, "to"))]
    ELSE IF arePointsEqual(Val(from), Val(to))
    THEN Failure("IDENTICAL_POINTS", "")
    ELSE LET normalizedBearing == RemDegrees(AddDegrees(bearingDeg, 360), 360)
         IN  Success(RoundToMicro(normalizedBearing))

\* Points: three valid ones 5 * 10^-11 degrees apart in latitude, one a
\* degree away, and points invalid in one field or in both.
GeoPoints ==
    {Null} \cup
    {Some([latitude |-> Coord(lat[1], lat[2]), longitude |-> Coord(lon[1], lon[2])]) :
        lat \in {<<0, 0>>, <<0, 5>>, <<0, 10>>, <<1, 0>>},
        lon \in {<<0, 0>>}} \cup
    {Some([latitude |-> Coord(lat[1], lat[2]), longitude |-> Coord(lon[1], lon[2])]) :
        lat \in {<<0, 0>>, <<90, 5>>},
        lon \in {<<181, 0>>, <<NaN, 0>>}} \cup
    {Some([latitude |-> Coord(Infinity, 0), longitude |-> Coord(0, 0)])}

\* Values of R * centralAngleRad, in meters
HaversineValues == {0, 1113}

\* Arguments of calculateSpeed
SpeedInputs == {NaN, Infinity, -Infinity, -1, 0, 1, 7}

\* Values of toDegrees(Math.atan2(y, x)): both ends, both sides of 0, and
\* the tenths on both sides of the rounding step.
BearingDegValues ==
    {[micro |-> 180 * MICRO, tenth |-> 0]} \cup
    [micro : {-180 * MICRO, -1, 0, 180 * MICRO - 1}, tenth : {4, 5}]

\* --------------------------------------- StorageService (materialization)
\* A string the code takes apart is a sequence of characters.
WhiteSpace == {" ", "\t", "\n"}

UpperCase ==
    <<"A", "B", "C", "D", "E", "F", "G", "H", "I", "J", "K", "L", "M",
      "N", "O", "P", "Q", "R", "S", "T", "U", "V", "W", "X", "Y", "Z">>
LowerCase ==
    <<"a", "b", "c", "d", "e", "f", "g", "h", "i", "j", "k", "l", "m",
      "n", "o", "p", "q", "r", "s", "t", "u", "v", "w", "x", "y", "z">>

ToLowerChar(c) ==
    IF \E i \in DOMAIN UpperCase : UpperCase[i] = c
    THEN LowerCase[CHOOSE i \in DOMAIN UpperCase : UpperCase[i] = c]
    ELSE c

\* String.prototype.toLowerCase
toLowerCase(s) == [i \in DOMAIN s |-> ToLowerChar(s[i])]

RECURSIVE SkipWhiteSpace(_)
SkipWhiteSpace(s) ==
    IF s # <<>> /\ Head(s) \in WhiteSpace THEN SkipWhiteSpace(Tail(s)) ELSE s

\* title.replace(/\s+/g, '-'): every run of white space becomes one '-'.
RECURSIVE ReplaceWhiteSpace(_)
ReplaceWhiteSpace(s) ==
    IF s = <<>> THEN <<>>
    ELSE IF Head(s) \in WhiteSpace
    THEN <<"-">> \o ReplaceWhiteSpace(SkipWhiteSpace(s))
    ELSE <<Head(s)>> \o ReplaceWhiteSpace(Tail(s))

\* generateRouteId: `${title.replace(/\s+/g, '-').toLowerCase()}-${firstFootprintId}`
generateRouteId(title, firstFootprintId) ==
    toLowerCase(ReplaceWhiteSpace(title)) \o <<"-">> \o <<ToString(firstFootprintId)>>

\* Date.prototype.toISOString and new Date(text): the timestamp column holds
\* the ISO text of an instant; parsing the text gives the instant back.
toISOString(date) == <<"ISO", date>>
ParseDate(text) == text[2]

\* A faulty variant: it takes the heading from the speed column.
transformFootprintToLocationPoint_HeadingFromSpeed(footprint) ==
    [latitude |-> footprint.latitude, longitude |-> footprint.longitude,
     timestamp |-> ParseDate(footprint.timestamp), accuracy |-> footprint.accuracy,
     speed |-> footprint.speed, heading |-> footprint.speed]

transformFootprintToLocationPoint(footprint) ==
    [latitude |-> footprint.latitude, longitude |-> footprint.longitude,
     timestamp |-> ParseDate(footprint.timestamp), accuracy |-> footprint.accuracy,
     speed |-> footprint.speed, heading |-> footprint.direction]

\* Names every object inherits from Object.prototype (those the model uses
\* as labels): grouped[name] is truthy on the empty object {}.
ObjectPrototypeKeys ==
    {<<"v", "a", "l", "u", "e", "O", "f">>,
     <<"t", "o", "S", "t", "r", "i", "n", "g">>}

\* Math.min(...xs) and Math.max(...xs) on a non-empty list of instants.
MinOf(xs) == CHOOSE x \in {xs[i] : i \in DOMAIN xs} : \A i \in DOMAIN xs : x <= xs[i]
MaxOf(xs) == CHOOSE x \in {xs[i] : i \in DOMAIN xs} : \A i \in DOMAIN xs : x >= xs[i]

\* The keys of grouped in insertion order (no label of the model is an
\* integer index, so Object.entries follows insertion order).
RECURSIVE GroupKeys(_, _)
GroupKeys(footprints, seen) ==
    IF footprints = <<>> THEN <<>>
    ELSE IF Head(footprints).title \in seen
    THEN GroupKeys(Tail(footprints), seen)
    ELSE <<Head(footprints).title>>
             \o GroupKeys(Tail(footprints), seen \cup {Head(footprints).title})

\* A faulty variant: it takes startTime from the first point and endTime from the last.
RouteOfGroup_FirstLast(title, titleFootprints) ==
    LET points == [i \in DOMAIN titleFootprints |->
                       transformFootprintToLocationPoint(titleFootprints[i])]
        timestamps == [i \in DOMAIN points |-> points[i].timestamp]
    IN  [id |-> generateRouteId(title, titleFootprints[1].id),
         name |-> title,
         startTime |-> timestamps[1],
         endTime |-> timestamps[Len(timestamps)],
         pointCount |-> Len(points),
         locationPoints |-> points]

\* The Route built from one entry of grouped.
RouteOfGroup(title, titleFootprints) ==
    LET points == [i \in DOMAIN titleFootprints |->
                       transformFootprintToLocationPoint(titleFootprints[i])]
        timestamps == [i \in DOMAIN points |-> points[i].timestamp]
    IN  [id |-> generateRouteId(title, titleFootprints[1].id),
         name |-> title,
         startTime |-> MinOf(timestamps),
         endTime |-> MaxOf(timestamps),
         pointCount |-> Len(points),
         locationPoints |-> points]

\* groupFootprintsByTitle. grouped starts as {}: for a label that names an
\* inherited property the lookup is truthy, no array is created, and push is
\* called on the inherited value, which throws a TypeError.
groupFootprintsByTitle(footprints) ==
    IF \E i \in DOMAIN footprints : footprints[i].title \in ObjectPrototypeKeys
    THEN Failure("TypeError", "")
    ELSE LET keys == GroupKeys(footprints, {})
         IN  Success([k \in DOMAIN keys |->
                 RouteOfGroup(keys[k],
                     SelectSeq(footprints, LAMBDA f : f.title = keys[k]))])

\* Labels: two ordinary ones and one that names an inherited property.
Titles ==
    {<<"R", "u", "n">>, <<"M", " ", " ", "w">>, <<"v", "a", "l", "u", "e", "O", "f">>}

\* Rows of the footprints table without their id.
FootprintColumns ==
    [title : Titles, latitude : {35}, longitude : {139}, accuracy : {5},
     speed : {Some(1)}, direction : {Null, Some(90)},
     timestamp : {toISOString(1), toISOString(2)}]

WithId(columns, id) ==
    [id |-> id, title |-> columns.title, latitude |-> columns.latitude,
     longitude |-> columns.longitude, accuracy |-> columns.accuracy,
     speed |-> columns.speed, direction |-> columns.direction,
     timestamp |-> columns.timestamp]

\* A row list with pairwise distinct ids: the ids 1..n in order, started at
\* position k of the list.
FootprintList(cs, k) ==
    [i \in DOMAIN cs |-> WithId(cs[i], ((i + k) % Len(cs)) + 1)]

\* ------------------------------------------------- StorageService (SQLite)
\* Characters in the order of their codes, for the BINARY collation of TEXT.
Alphabet == <<"\t", "\n", " ", "-">> \o UpperCase \o LowerCase

CharCode(c) == CHOOSE i \in DOMAIN Alphabet : Alphabet[i] = c

RECURSIVE TextLess(_, _)
TextLess(a, b) ==
    IF b = <<>> THEN FALSE
    ELSE IF a = <<>> THEN TRUE
    ELSE IF Head(a) = Head(b) THEN TextLess(Tail(a), Tail(b))
    ELSE CharCode(Head(a)) < CharCode(Head(b))

\* ISO texts of equal width compare as their instants do.
IsoLess(s, t) == s[2] < t[2]

\* ORDER BY title, timestamp ASC
RowLess(a, b) ==
    \/ TextLess(a.title, b.title)
    \/ a.title = b.title /\ IsoLess(a.timestamp, b.timestamp)

\* The orders in which SQLite may return the rows rs under ORDER BY title,
\* timestamp: rows that compare equal come in an unspecified order.
QueryResults(rs) ==
    {s \in {[i \in DOMAIN rs |-> rs[p[i]]] :
                p \in {q \in [DOMAIN rs -> DOMAIN rs] :
                          \A i, j \in DOMAIN rs : i # j => q[i] # q[j]}} :
        \A i, j \in DOMAIN s : i < j => ~RowLess(s[j], s[i])}

NotInitialized == Failure("Database not initialized", "")
SqlError == Failure("SQLITE_ERROR", "")

\* The rows one createFootprint call inserts, ids from the AUTOINCREMENT
\* counter: heading goes to direction, the timestamp is stored as ISO text.
InsertedRows(title, points, firstId) ==
    [i \in DOMAIN points |->
        [id |-> firstId + i - 1, title |-> title,
         latitude |-> points[i].latitude, longitude |-> points[i].longitude,
         accuracy |-> points[i].accuracy, speed |-> points[i].speed,
         direction |-> points[i].heading,
         timestamp |-> toISOString(points[i].timestamp)]]

\* What the part of fetchFootprints / fetchFootprintsByTitle after the query
\* returns for the query result footprints.
RoutesOf(footprints) ==
    IF Len(footprints) = 0 THEN Success(<<>>) ELSE groupFootprintsByTitle(footprints)

\* SELECT COUNT(DISTINCT title)
DistinctTitles(rs) == Cardinality({rs[i].title : i \in DOMAIN rs})

\* The ids a fetch result gives to the labels: label -> route id.
IdsOf(result) ==
    [label \in {result[k].name : k \in DOMAIN result} |->
        (CHOOSE r \in {result[k] : k \in DOMAIN result} : r.name = label).id]

\* Samples handed to createFootprint.
StoredPoints ==
    [latitude : {35}, longitude : {139}, accuracy : {5}, speed : {Some(1)},
     heading : {Some(90)}, timestamp : {1, 2}]

\* ------------------------------------------------------- store instances
\* The arrays and the Map of the two module-level initialState objects are
\* objects of their own: a field of an instance either refers to the object
\* of initialState (SharedRef) or to an object made by an operation (Own).
SharedRef == <<"shared">>
Own(v) == <<"own", v>>
DerefIn(ref, field, sh) == IF Len(ref) = 1 THEN sh[field] ELSE ref[2]
Deref(ref, field) == DerefIn(ref, field, shared)

\* {...initialState} of footprintStore and of routeStore
SpreadFootprintInitial ==
    [isCollecting |-> FALSE, startTime |-> Null, locationPoints |-> SharedRef,
     currentLocation |-> Null, currentSpeed |-> Null]
SpreadRouteInitial == [routes |-> SharedRef, routeMap |-> SharedRef]

\* createFootprintStore() as instance i
createFootprintStoreAt(i) ==
    /\ fpInst' = MapSet(fpInst, i, SpreadFootprintInitial)
    /\ shared' = shared

\* createRouteStore() as instance i
createRouteStoreAt(i) ==
    /\ rtInst' = MapSet(rtInst, i, SpreadRouteInitial)
    /\ shared' = shared

startCollectingAt(i) ==
    /\ fpInst' = [fpInst EXCEPT ![i] = [@ EXCEPT !.isCollecting = TRUE,
                                                 !.startTime = Some(now)]]
    /\ shared' = shared

stopCollectingAt(i) ==
    /\ fpInst' = [fpInst EXCEPT ![i] = SpreadFootprintInitial]
    /\ shared' = shared

resetAt(i) ==
    /\ fpInst' = [fpInst EXCEPT ![i] = SpreadFootprintInitial]
    /\ shared' = shared

\* A faulty variant: it pushes onto the array the state refers to.
addLocationPointAt_Push(i, location) ==
    IF ~fpInst[i].isCollecting
    THEN UNCHANGED <<fpInst, shared>>
    ELSE IF Len(fpInst[i].locationPoints) = 1
    THEN /\ shared' = [shared EXCEPT !.locationPoints = Append(@, location)]
         /\ fpInst' = [fpInst EXCEPT ![i] =
                          [@ EXCEPT !.currentLocation = Some(location),
                                    !.currentSpeed = location.speed]]
    ELSE /\ shared' = shared
         /\ fpInst' = [fpInst EXCEPT ![i] =
                          [@ EXCEPT !.locationPoints = Own(Append(@[2], location)),
                                    !.currentLocation = Some(location),
                                    !.currentSpeed = location.speed]]

\* addLocationPoint: [...state.locationPoints, location] is a new array.
addLocationPointAt(i, location) ==
    IF ~fpInst[i].isCollecting
    THEN UNCHANGED <<fpInst, shared>>
    ELSE /\ shared' = shared
         /\ fpInst' = [fpInst EXCEPT ![i] =
                          [@ EXCEPT !.locationPoints =
                                        Own(Append(Deref(@, "locationPoints"), location)),
                                    !.currentLocation = Some(location),
                                    !.currentSpeed = location.speed]]

\* addRoute: the array is copied before it is sorted, the Map is copied.
addRouteAt(i, route) ==
    /\ rtInst' = [rtInst EXCEPT ![i] =
           [routes |-> Own(sortRoutesByTime(Append(Deref(@.routes, "routes"), route))),
            routeMap |-> Own(MapSet(Deref(@.routeMap, "routeMap"), route.id, route))]]
    /\ shared' = shared

\* deleteRouteByTitle: filter and new Map(...) make new objects.
deleteRouteByTitleAt(i, title) ==
    LET current == Deref(rtInst[i].routes, "routes")
        routesToDelete == SelectSeq(current, LAMBDA r : r.name = title)
    IN  IF Len(routesToDelete) = 0
        THEN UNCHANGED <<rtInst, shared>>
        ELSE /\ rtInst' = [rtInst EXCEPT ![i] =
                    [routes |-> Own(SelectSeq(current, LAMBDA r : r.name # title)),
                     routeMap |-> Own(MapDelete(Deref(rtInst[i].routeMap, "routeMap"),
                                         {routesToDelete[k].id : k \in DOMAIN routesToDelete}))]]
             /\ shared' = shared

\* The state of an instance as a reader sees it, under the shared objects sh.
FootprintView(s, sh) ==
    [s EXCEPT !.locationPoints = DerefIn(s.locationPoints, "locationPoints", sh)]
RouteView(s, sh) ==
    [routes |-> DerefIn(s.routes, "routes", sh),
     routeMap |-> DerefIn(s.routeMap, "routeMap", sh)]

\* ---------------------------------------------------------- ExportService
\* Text is a sequence of pieces: single characters for route names and
\* separators, whole words for the literals of the code.
Digits == <<"0", "1", "2", "3", "4", "5", "6", "7", "8", "9">>

RECURSIVE NatToString(_)
NatToString(n) ==
    IF n < 10 THEN <<Digits[n + 1]>>
    ELSE NatToString(n \div 10) \o <<Digits[(n % 10) + 1]>>

\* Number.prototype.toString on an integer
toString(n) == IF n < 0 THEN <<"-">> \o NatToString(-n) ELSE NatToString(n)

\* timestamp.toISOString() as text, the instant written in decimal
toISOStringText(timestamp) == <<"T">> \o toString(timestamp) \o <<"Z">>

\* Array.prototype.join
RECURSIVE join(_, _)
join(parts, separator) ==
    IF parts = <<>> THEN <<>>
    ELSE IF Len(parts) = 1 THEN parts[1]
    ELSE parts[1] \o separator \o join(Tail(parts), separator)

\* value.replace(/"/g, '""')
RECURSIVE replaceQuotes(_)
replaceQuotes(value) ==
    IF value = <<>> THEN <<>>
    ELSE (IF Head(value) = "\"" THEN <<"\"", "\"">> ELSE <<Head(value)>>)
            \o replaceQuotes(Tail(value))

\* A faulty variant: it wraps the value without doubling its quotes.
escapeCsvValue_NoDoubling(value) ==
    IF \E i \in DOMAIN value : value[i] \in {",", "\"", "\n"}
    THEN <<"\"">> \o value \o <<"\"">>
    ELSE value

escapeCsvValue(value) ==
    IF \E i \in DOMAIN value : value[i] \in {",", "\"", "\n"}
    THEN <<"\"">> \o replaceQuotes(value) \o <<"\"">>
    ELSE value

\* x?.toString() || '' for a nullable number
OptionalText(x) == IF x = Null THEN <<>> ELSE toString(Val(x))

formatCsvRow(routeName, latitude, longitude, timestamp, accuracy, speed, heading) ==
    join(<<routeName, toString(latitude), toString(longitude),
           toISOStringText(timestamp), toString(accuracy),
           OptionalText(speed), OptionalText(heading)>>, <<",">>)

headers ==
    <<"Route", ",", "Latitude", ",", "Longitude", ",", "Timestamp", ",",
      "Accuracy", ",", "Speed", ",", "Heading", "\n">>

\* The rows of one route, in the order of its points.
RowsOfRoute(route) ==
    [i \in DOMAIN route.locationPoints |->
        LET point == route.locationPoints[i]
        IN  formatCsvRow(escapeCsvValue(route.name), point.latitude, point.longitude,
                         point.timestamp, point.accuracy, point.speed, point.heading)]

RECURSIVE RowsOfRoutes(_)
RowsOfRoutes(rs) ==
    IF rs = <<>> THEN <<>> ELSE RowsOfRoute(Head(rs)) \o RowsOfRoutes(Tail(rs))

\* makeCSVData: csvRows[0] is headers, newline included, and the rows are
\* joined with newlines.
makeCSVData(rs) ==
    IF Len(rs) = 0 THEN headers
    ELSE LET csvRows == <<headers>> \o RowsOfRoutes(rs)
         IN  join(csvRows, <<"\n">>) \o <<"\n">>

createErrorResult(message) == [rejected |-> FALSE, success |-> FALSE, error |-> Some(message)]

ApiCall(call, path) == [call |-> call, path |-> path]

\* cleanupTempFile: the calls it makes
cleanupTempFile(tempFilePath) ==
    IF tempFilePath # Null THEN <<ApiCall("deleteAsync", tempFilePath)>> ELSE <<>>

\* A faulty variant: the cleanup has no try/catch of its own, so a failing
\* deleteAsync rejects the call.
sendMailWithCSV_CleanupThrows(rs, recipientEmail, api, time) ==
    LET tempFilePath == Some(time)
        available == <<ApiCall("isAvailableAsync", Null)>>
        written == available \o <<ApiCall("writeAsStringAsync", tempFilePath)>>
        composed == written \o <<ApiCall("composeAsync", tempFilePath)>>
        Finally(result, made) ==
            [result |-> IF api.delete = "throws"
                        THEN [rejected |-> TRUE, success |-> FALSE, error |-> Some("delete")]
                        ELSE result,
             effects |-> made \o cleanupTempFile(tempFilePath)]
    IN  IF api.available = "throws"
        THEN [result |-> createErrorResult("thrown"), effects |-> available]
        ELSE IF api.available = "no"
        THEN [result |-> createErrorResult("Mail service is not available on this device"),
              effects |-> available]
        ELSE IF api.write = "throws"
        THEN Finally(createErrorResult("thrown"), written)
        ELSE IF api.compose = "throws"
        THEN Finally(createErrorResult("thrown"), composed)
        ELSE IF api.compose = "cancelled"
        THEN Finally(createErrorResult("Email composition was cancelled"), composed)
        ELSE Finally([rejected |-> FALSE, success |-> TRUE, error |-> Null], composed)

\* sendMailWithCSV: the result and the calls made into the mail composer and
\* the file system. api gives what each call does: isAvailableAsync resolves
\* to yes or no or throws, writeAsStringAsync and deleteAsync resolve or
\* throw, composeAsync resolves to sent or cancelled or throws; time is
\* Date.now(), which names the temporary file.
sendMailWithCSV(rs, recipientEmail, api, time) ==
    LET tempFilePath == Some(time)
        available == <<ApiCall("isAvailableAsync", Null)>>
        written == available \o <<ApiCall("writeAsStringAsync", tempFilePath)>>
        composed == written \o <<ApiCall("composeAsync", tempFilePath)>>
        Finally(result, made) ==
            [result |-> result, effects |-> made \o cleanupTempFile(tempFilePath)]
    IN  IF api.available = "throws"
        THEN [result |-> createErrorResult("thrown"), effects |-> available]
        ELSE IF api.available = "no"
        THEN [result |-> createErrorResult("Mail service is not available on this device"),
              effects |-> available]
        ELSE IF api.write = "throws"
        THEN Finally(createErrorResult("thrown"), written)
        ELSE IF api.compose = "throws"
        THEN Finally(createErrorResult("thrown"), composed)
        ELSE IF api.compose = "cancelled"
        THEN Finally(createErrorResult("Email composition was cancelled"), composed)
        ELSE Finally([rejected |-> FALSE, success |-> TRUE, error |-> Null], composed)

\* Names of up to three characters over a letter and the three characters
\* that force quoting.
NameChars == {"a", ",", "\"", "\n"}

CsvValues ==
    {<<>>} \cup {<<c>> : c \in NameChars} \cup {<<c, d>> : c \in NameChars, d \in NameChars}
        \cup {<<c, d, e>> : c \in NameChars, d \in NameChars, e \in NameChars}

ExportPoints ==
    [latitude : {35}, longitude : {-7}, timestamp : {1, 12}, accuracy : {5},
     speed : {Null, Some(0)}, heading : {Null}]

\* Lists of at most two points, timestamps in order.
ExportPointLists ==
    {<<>>} \cup {<<a>> : a \in ExportPoints}
        \cup {<<a, b>> : a \in {q \in ExportPoints : q.timestamp = 1},
                          b \in {q \in ExportPoints : q.timestamp = 12}}

ExportRoutes ==
    [name : {<<"a">>, <<"a", ",">>, <<"\"">>}, locationPoints : ExportPointLists]

ExportRouteLists ==
    {<<>>} \cup {<<r>> : r \in ExportRoutes}
        \cup {<<r, q>> : r \in {x \in ExportRoutes : x.name = <<"a">>},
                          q \in {x \in ExportRoutes : x.name # <<"a">> /\ Len(x.locationPoints) < 2}}

ApiOutcomes ==
    [available : {"yes", "no", "throws"}, write : {"ok", "throws"},
     compose : {"sent", "cancelled", "throws"}, delete : {"ok", "throws"}]

\* --------------------------------------------------- useFootprintManagement
\* String.prototype.trim
RECURSIVE SkipWhiteSpaceAtEnd(_)
SkipWhiteSpaceAtEnd(text) ==
    IF text # <<>> /\ text[Len(text)] \in WhiteSpace
    THEN SkipWhiteSpaceAtEnd(SubSeq(text, 1, Len(text) - 1))
    ELSE text

trim(text) == SkipWhiteSpaceAtEnd(SkipWhiteSpace(text))

\* A faulty variant: it rejects the empty name only.
validateRouteName_NoTrim(name) ==
    IF name = <<>>
    THEN [isValid |-> FALSE, error |-> Some("Invalid route data: name is required")]
    ELSE [isValid |-> TRUE, error |-> Null]

\* validateRouteName; a missing name and the empty name are both <<>>.
validateRouteName(name) ==
    IF name = <<>> \/ trim(name) = <<>>
    THEN [isValid |-> FALSE, error |-> Some("Invalid route data: name is required")]
    ELSE [isValid |-> TRUE, error |-> Null]

ServiceCall(call, title) == [call |-> call, title |-> title]

\* err instanceof Error ? err.message : 'Unknown error occurred'
errorMessage(result) == Some(result.error.code)

\* Names given to the hook: empty, blank, and with text.
HookTitles == {<<>>, <<" ">>, <<"\n">>, <<"\t", " ">>, <<" ", "R">>, <<"R", "u", "n">>}

\* ---------------------------------------------- LocationService (tracking)
\* The service object: its fields, and the calls made so far into the event
\* handlers and the injected APIs.
Service(cfg, st, sub, hp, ev, made) ==
    [config |-> cfg, status |-> st, locationSubscription |-> sub, heap |-> hp,
     events |-> ev, effects |-> made]

HandlerCall(call, with) == [call |-> call, with |-> with]

\* this.events?.onError(error), the error given by its code
emitErrorOn(svc, code) ==
    IF svc.events
    THEN [svc EXCEPT !.effects = Append(@, HandlerCall("onError", code))]
    ELSE svc

\* setStatus
setStatus(svc, st) ==
    IF svc.events
    THEN [svc EXCEPT !.status = st,
                     !.effects = Append(@, HandlerCall("onStatusChange", st))]
    ELSE [svc EXCEPT !.status = st]

\* A call into an injected API
called(svc, call, with) == [svc EXCEPT !.effects = Append(@, HandlerCall(call, with))]

\* The configuration object the service stores, Null when it stores none.
ConfigOf(svc) ==
    IF svc.config = Null THEN Null ELSE Some(svc.heap[Val(svc.config)])

\* A faulty variant: it stores the object it was passed, not a copy.
configure_NoCopy(svc, passed) ==
    IF ~validateConfig(IF passed = Null THEN Null ELSE Some(svc.heap[Val(passed)]))
    THEN emitErrorOn(svc, "CONFIGURATION_ERROR")
    ELSE [svc EXCEPT !.config = passed]

\* configure(config); passed is the identity of the caller's object, Null
\* for a null argument. this.config = { ...config } makes a new object.
configure(svc, passed) ==
    IF ~validateConfig(IF passed = Null THEN Null ELSE Some(svc.heap[Val(passed)]))
    THEN emitErrorOn(svc, "CONFIGURATION_ERROR")
    ELSE [svc EXCEPT !.config = Some("stored"),
                     !.heap = MapSet(@, "stored", svc.heap[Val(passed)])]

\* getConfig(): the service with the returned object in its heap; the
\* object is a new one, { ...this.config }.
getConfig(svc) ==
    IF svc.config = Null THEN svc
    ELSE [svc EXCEPT !.heap = MapSet(@, "returned", svc.heap[Val(svc.config)])]

\* A faulty variant: it goes on after reporting invalid data.
handleLocationUpdateOn_NoReturn(svc, locationData) ==
    IF ~validateLocationData(locationData)
    THEN LET failed == emitErrorOn(svc, "LOCATION_UNAVAILABLE")
         IN  IF failed.events THEN called(failed, "onLocationUpdate", "sample") ELSE failed
    ELSE IF svc.events THEN called(svc, "onLocationUpdate", "sample") ELSE svc

\* handleLocationUpdate, by the handler calls it makes
handleLocationUpdateOn(svc, locationData) ==
    IF ~validateLocationData(locationData)
    THEN emitErrorOn(svc, "LOCATION_UNAVAILABLE")
    ELSE IF svc.events THEN called(svc, "onLocationUpdate", "sample") ELSE svc

\* checkLocationServices: hasServicesEnabledAsync resolves to enabled or
\* disabled or throws
checkLocationServices(svc, api) ==
    LET asked == called(svc, "hasServicesEnabledAsync", api.services)
    IN  IF api.services = "enabled" THEN asked
        ELSE emitErrorOn(asked, "SERVICE_UNAVAILABLE")

\* requestPermissions(enableBackground): the service after the requests
requestPermissions(svc, enableBackground, api) ==
    LET foreground == called(svc, "requestForegroundPermissionsAsync", api.foreground)
    IN  IF api.foreground = "throws" THEN emitErrorOn(foreground, "PERMISSION_DENIED")
        ELSE IF enableBackground /\ api.foreground = "granted"
        THEN LET background ==
                    called(foreground, "requestBackgroundPermissionsAsync", api.background)
             IN  IF api.background = "throws"
                 THEN emitErrorOn(background, "PERMISSION_DENIED")
                 ELSE background
        ELSE foreground

\* permissions.foreground of what requestPermissions returns
ForegroundOf(enableBackground, api) ==
    IF api.foreground = "throws" THEN "denied"
    ELSE IF enableBackground /\ api.foreground = "granted" /\ api.background = "throws"
    THEN "denied"
    ELSE api.foreground

\* setupBackgroundTask: defineTask returns or throws
setupBackgroundTask(svc, api) ==
    LET defined == called(svc, "defineTask", api.define)
    IN  IF api.define = "throws" THEN emitErrorOn(defined, "CONFIGURATION_ERROR")
        ELSE defined

\* The part of startTracking after setStatus(STARTING)
StartWatching(svc, enableBackground, api) ==
    LET checked == checkLocationServices(svc, api)
    IN  IF api.services # "enabled" THEN setStatus(checked, "error")
        ELSE
        LET permitted == requestPermissions(checked, enableBackground, api)
        IN  IF ForegroundOf(enableBackground, api) # "granted"
            THEN setStatus(permitted, "error")
            ELSE
            LET prepared == IF enableBackground THEN setupBackgroundTask(permitted, api)
                            ELSE permitted
                watched == called(prepared, "watchPositionAsync", api.watch)
            IN  IF api.watch = "throws"
                THEN setStatus(emitErrorOn(watched, "LOCATION_UNAVAILABLE"), "error")
                ELSE setStatus([watched EXCEPT !.locationSubscription = Some("watch")],
                               "running")

\* config.enableBackground as a condition
Truthy(flag) == flag = Some(TRUE)

\* A faulty variant: it returns without a status when the location
\* services are off.
startTracking_NoErrorStatus(svc, passed, api) ==
    IF passed = Null THEN emitErrorOn(svc, "CONFIGURATION_ERROR")
    ELSE LET starting == setStatus(configure(svc, passed), "starting")
         IN  IF api.services # "enabled" THEN checkLocationServices(starting, api)
             ELSE StartWatching(starting, Truthy(svc.heap[Val(passed)].enableBackground), api)

\* startTracking(config); api gives what each call into expo-location and
\* expo-task-manager does.
startTracking(svc, passed, api) ==
    IF passed = Null THEN emitErrorOn(svc, "CONFIGURATION_ERROR")
    ELSE LET starting == setStatus(configure(svc, passed), "starting")
         IN  StartWatching(starting, Truthy(svc.heap[Val(passed)].enableBackground), api)

\* A faulty variant: it keeps the subscription it has removed.
stopTracking_KeepsSubscription(svc, api) ==
    LET stopping == setStatus(svc, "stopping")
        removed == IF stopping.locationSubscription # Null
                   THEN called(stopping, "remove", "watch")
                   ELSE stopping
    IN  IF ConfigOf(removed) # Null /\ Truthy(Val(ConfigOf(removed)).enableBackground)
        THEN LET asked == called(removed, "stopLocationUpdatesAsync", api.stop)
             IN  IF api.stop = "throws"
                 THEN setStatus(emitErrorOn(asked, "CONFIGURATION_ERROR"), "error")
                 ELSE setStatus(asked, "stopped")
        ELSE setStatus(removed, "stopped")

\* stopTracking(); stopLocationUpdatesAsync resolves or throws, remove()
\* returns.
stopTracking(svc, api) ==
    LET stopping == setStatus(svc, "stopping")
        removed == IF stopping.locationSubscription # Null
                   THEN [called(stopping, "remove", "watch")
                            EXCEPT !.locationSubscription = Null]
                   ELSE stopping
    IN  IF ConfigOf(removed) # Null /\ Truthy(Val(ConfigOf(removed)).enableBackground)
        THEN LET asked == called(removed, "stopLocationUpdatesAsync", api.stop)
             IN  IF api.stop = "throws"
                 THEN setStatus(emitErrorOn(asked, "CONFIGURATION_ERROR"), "error")
                 ELSE setStatus(asked, "stopped")
        ELSE setStatus(removed, "stopped")

\* Configurations given to the service: valid ones with and without
\* background tracking, one with an unknown accuracy, one without
\* enableBackground.
TrackingConfigs ==
    [accuracy : {"best"}, enableBackground : {Some(TRUE), Some(FALSE)},
     distanceInterval : {Null}, timeInterval : {Null}]
    \cup [accuracy : {"high"}, enableBackground : {Some(TRUE)},
          distanceInterval : {Null}, timeInterval : {Null}]
    \cup [accuracy : {"best"}, enableBackground : {Null},
          distanceInterval : {Some(-1)}, timeInterval : {Null}]

\* What the calls of startTracking and stopTracking into the platform do.
AllResolve ==
    [services |-> "enabled", foreground |-> "granted", background |-> "granted",
     define |-> "ok", watch |-> "ok", stop |-> "ok"]

\* Every call resolves, or one of them does not.
StartOutcomes ==
    {AllResolve}
    \cup {[AllResolve EXCEPT !.services = o] : o \in {"disabled", "throws"}}
    \cup {[AllResolve EXCEPT !.foreground = o] : o \in {"denied", "throws"}}
    \cup {[AllResolve EXCEPT !.background = "throws"],
          [AllResolve EXCEPT !.define = "throws"],
          [AllResolve EXCEPT !.watch = "throws"]}

StopOutcomes == {AllResolve, [AllResolve EXCEPT !.stop = "throws"]}

\* Raw location events for the service alone
TrackingFixes ==
    {f \in RawFixes :
        f.coords # Null =>
            /\ Val(f.coords).accuracy = Null /\ Val(f.coords).speed = Null
            /\ Val(f.coords).heading = Some(90)
            /\ \/ Val(f.coords).longitude = Some(0)
               \/ Val(f.coords).latitude = Some(0) /\ f.timestamp = Some(1000)}

\* --------------------------------------------------- useLocationCollection
\* The configuration startCollection passes to startTracking; accuracy is
\* state.accuracy, GPS_ACCURACY.BEST unless setAccuracy has changed it.
CollectionConfig ==
    [accuracy |-> "best", enableBackground |-> Some(FALSE),
     distanceInterval |-> Some(5), timeInterval |-> Some(1000)]

\* handleLocationError: state.error after the onError calls in made
ErrorAfter(before, made) ==
    LET errs == SelectSeq(made, LAMBDA e : e.call = "onError")
    IN  IF errs = <<>> THEN before ELSE Some(errs[Len(errs)].with)

\* startTracking(config) up to its first await
startTrackingBegin(svc, passed) ==
    IF passed = Null THEN emitErrorOn(svc, "CONFIGURATION_ERROR")
    ELSE setStatus(configure(svc, passed), "starting")

\* startTracking from the await it is at (services, permissions, watch) to
\* the next one or to its end; api gives what the awaited call did.
startTrackingStep(svc, pc, enableBackground, api) ==
    IF pc = "services"
    THEN LET checked == checkLocationServices(svc, api)
         IN  IF api.services # "enabled" THEN setStatus(checked, "error") ELSE checked
    ELSE IF pc = "permissions"
    THEN LET permitted == requestPermissions(svc, enableBackground, api)
         IN  IF ForegroundOf(enableBackground, api) # "granted"
             THEN setStatus(permitted, "error")
             ELSE IF enableBackground THEN setupBackgroundTask(permitted, api)
             ELSE permitted
    ELSE LET watched == called(svc, "watchPositionAsync", api.watch)
         IN  IF api.watch = "throws"
             THEN setStatus(emitErrorOn(watched, "LOCATION_UNAVAILABLE"), "error")
             ELSE setStatus([watched EXCEPT !.locationSubscription = Some("watch")],
                            "running")

\* The await startTracking is at after that step, "done" when it returned.
startTrackingNext(pc, enableBackground, api) ==
    IF pc = "services"
    THEN IF api.services = "enabled" THEN "permissions" ELSE "done"
    ELSE IF pc = "permissions"
    THEN IF ForegroundOf(enableBackground, api) = "granted" THEN "watch" ELSE "done"
    ELSE "done"

\* What the call awaited at pc can do, every other call resolving.
StepOutcomes(pc) ==
    IF pc = "services"
    THEN {a \in StartOutcomes : a.services # "enabled"} \cup {AllResolve}
    ELSE IF pc = "permissions"
    THEN {a \in StartOutcomes : a.foreground # "granted"} \cup {AllResolve}
    ELSE {a \in StartOutcomes : a.watch # "ok"} \cup {AllResolve}

\* stopTracking() when subscription.remove() throws: the catch block runs,
\* the subscription stays.
stopTrackingRemoveThrows(svc) ==
    LET stopping == setStatus(svc, "stopping")
        asked == called(stopping, "remove", "throws")
    IN  setStatus(emitErrorOn(asked, "CONFIGURATION_ERROR"), "error")

\* addLocationPoint on a store state
addLocationPointTo(state, location) ==
    IF ~state.isCollecting THEN state
    ELSE [state EXCEPT !.locationPoints = Append(@, location),
                       !.currentLocation = Some(location),
                       !.currentSpeed = location.speed]

\* The store after the callbacks of n position watches have handed it the
\* same sample.
RECURSIVE handedToStore(_, _, _)
handedToStore(state, location, n) ==
    IF n = 0 THEN state
    ELSE handedToStore(addLocationPointTo(state, location), location, n - 1)

\* The event the platform delivers at time t
FixAt(t) ==
    [coords |-> Some([latitude |-> Some(0), longitude |-> Some(0), accuracy |-> Null,
                      speed |-> Null, heading |-> Some(90)]),
     timestamp |-> Some(t)]

\* ------------------------------------------------------------- call log
Logged(op) ==
    calls' = IF Len(calls) < HistLen THEN Append(calls, op)
             ELSE Append(Tail(calls), op)

LastCall == IF calls = <<>> THEN "none" ELSE calls[Len(calls)]

\* LocationPoint values handed to the store directly.
Samples ==
    [latitude : {35}, longitude : {139}, timestamp : {1, 2}, accuracy : {5},
     speed : {Null, Some(0), Some(3)}, heading : {Null}]

\* ------------------------------------------------------------------ init
\* Everything but the input of a pure function.
InitState ==
    /\ isCollecting = initialState.isCollecting
    /\ startTime = initialState.startTime
    /\ locationPoints = initialState.locationPoints
    /\ currentLocation = initialState.currentLocation
    /\ currentSpeed = initialState.currentSpeed
    /\ routes = <<>>
    /\ routeMap = EmptyMap
    /\ events = FALSE
    /\ error = Null
    /\ now = 0
    /\ calls = <<>>
    /\ returned = Null
    /\ fn = "none"
    /\ out = Null
    /\ database = Null
    /\ initPc = "idle"
    /\ initDone = FALSE
    /\ tableCreated = FALSE
    /\ rows = <<>>
    /\ nextId = 1
    /\ sqlCalls = 0
    /\ fetched = EmptyMap
    /\ fpInst = EmptyMap
    /\ rtInst = EmptyMap
    /\ shared = [locationPoints |-> <<>>, routes |-> <<>>, routeMap |-> EmptyMap]
    /\ effects = <<>>
    /\ storageServiceRef = FALSE
    /\ managementError = Null
    /\ storedConfig = Null
    /\ status = "stopped"
    /\ locationSubscription = Null
    /\ heap = EmptyMap
    /\ isLoading = FALSE
    /\ stateRoutes = <<>>
    /\ loadsInFlight = 0
    /\ startsInFlight = <<>>
    /\ stopsInFlight = <<>>
    /\ activeWatches = 0
    /\ overtaken = FALSE

Init == InitState /\ arg = Null

\* --------------------------------------------------------------- actions
Tick ==
    /\ now < MaxClock
    /\ now' = now + 1
    /\ UNCHANGED <<storeVars, routeVars, hookVars, calls, returned, callVars, dbVars, instVars, svcVars>>

StartCollecting ==
    /\ startCollecting
    /\ Logged("startCollecting")
    /\ UNCHANGED <<routeVars, hookVars, now, returned, callVars, dbVars, instVars, svcVars>>

StopCollecting ==
    /\ stopCollecting
    /\ Logged("stopCollecting")
    /\ UNCHANGED <<routeVars, hookVars, now, returned, callVars, dbVars, instVars, svcVars>>

Reset ==
    /\ reset
    /\ Logged("reset")
    /\ UNCHANGED <<routeVars, hookVars, now, returned, callVars, dbVars, instVars, svcVars>>

AddLocationPoint ==
    /\ Len(locationPoints) < MaxPoints
    /\ \E location \in Samples : addLocationPoint(location)
    /\ Logged("addLocationPoint")
    /\ UNCHANGED <<routeVars, hookVars, now, returned, callVars, dbVars, instVars, svcVars>>

NextSession == Tick \/ StartCollecting \/ StopCollecting \/ Reset \/ AddLocationPoint

SpecSession == Init /\ [][NextSession]_vars

AddRoute(route) ==
    /\ Len(routes) < MaxRoutes
    /\ addRoute(route)
    /\ Logged("addRoute")
    /\ returned' = Null
    /\ UNCHANGED <<storeVars, hookVars, now, callVars, dbVars, instVars, svcVars>>

DeleteRouteByTitle(title) ==
    /\ deleteRouteByTitle(title)
    /\ Logged("deleteRouteByTitle")
    /\ UNCHANGED <<storeVars, hookVars, now, callVars, dbVars, instVars, svcVars>>

NextCatalog ==
    \/ \E route \in RouteValues : AddRoute(route)
    \/ \E title \in RouteNames : DeleteRouteByTitle(title)

SpecCatalog == Init /\ [][NextCatalog]_vars


SetEventHandlers ==
    /\ ~events
    /\ setEventHandlers
    /\ Logged("setEventHandlers")
    /\ UNCHANGED <<storeVars, routeVars, error, now, returned, callVars, dbVars, instVars, svcVars>>

HandleLocationUpdate(locationData) ==
    /\ Len(locationPoints) < MaxPoints
    /\ handleLocationUpdate(locationData)
    /\ Logged("handleLocationUpdate")
    /\ UNCHANGED <<routeVars, events, now, returned, callVars, dbVars, instVars, svcVars>>

NextPipeline ==
    \/ SetEventHandlers
    \/ StartCollecting
    \/ StopCollecting
    \/ \E locationData \in RawFixes : HandleLocationUpdate(locationData)

SpecPipeline == Init /\ [][NextPipeline]_vars

\* Everything a pure function leaves alone: all but fn, arg and out.
restVars == <<storeVars, routeVars, hookVars, now, calls, returned, dbVars, instVars, svcVars>>

\* Everything outside the services: the stores, the database and the history.
coreVars == <<storeVars, routeVars, hookVars, now, calls, returned, dbVars, instVars>>

\* ------------------------------------------------- actions: validation
\* Each action applies one function to one input and records the outcome.
ValidateLocationPointDetailed(location) ==
    /\ fn' = "validateLocationPointDetailed"
    /\ arg' = location
    /\ out' = validateLocationPointDetailed(location)
    /\ UNCHANGED restVars

ValidateLocationPoint(location) ==
    /\ fn' = "validateLocationPoint"
    /\ arg' = location
    /\ out' = validateLocationPoint(location)
    /\ UNCHANGED restVars

ValidateGPSAccuracy(accuracy) ==
    /\ fn' = "validateGPSAccuracy"
    /\ arg' = accuracy
    /\ out' = validateGPSAccuracy(accuracy)
    /\ UNCHANGED restVars

ValidateGPSAccuracyDetailed(accuracy) ==
    /\ fn' = "validateGPSAccuracyDetailed"
    /\ arg' = accuracy
    /\ out' = validateGPSAccuracyDetailed(accuracy)
    /\ UNCHANGED restVars

ValidateConfig(config) ==
    /\ fn' = "validateConfig"
    /\ arg' = config
    /\ out' = validateConfig(config)
    /\ UNCHANGED restVars

MapGPSAccuracyToExpo(gpsAccuracy) ==
    /\ fn' = "mapGPSAccuracyToExpo"
    /\ arg' = gpsAccuracy
    /\ out' = mapGPSAccuracyToExpo(gpsAccuracy)
    /\ UNCHANGED restVars

NextValidation ==
    \/ \E location \in ValidationInputs : ValidateLocationPointDetailed(location)
    \/ \E location \in ValidationInputs : ValidateLocationPoint(location)
    \/ \E accuracy \in AccuracyInputs : ValidateGPSAccuracy(accuracy)
    \/ \E accuracy \in AccuracyInputs : ValidateGPSAccuracyDetailed(accuracy)
    \/ \E config \in ConfigInputs : ValidateConfig(config)
    \/ \E gpsAccuracy \in AccuracyInputs : MapGPSAccuracyToExpo(gpsAccuracy)

SpecValidation == Init /\ [][NextValidation]_vars

\* --------------------------------------------------- actions: geometry
CalculateDirection(from, to, bearingDeg) ==
    /\ fn' = "calculateDirection"
    /\ arg' = [from |-> from, to |-> to, bearingDeg |-> bearingDeg]
    /\ out' = calculateDirection(from, to, bearingDeg)
    /\ UNCHANGED restVars

CalculateDistance(from, to, haversine) ==
    /\ fn' = "calculateDistance"
    /\ arg' = [from |-> from, to |-> to, haversine |-> haversine]
    /\ out' = calculateDistance(from, to, haversine)
    /\ UNCHANGED restVars

CalculateSpeed(distanceInMeters, timeInSeconds) ==
    /\ fn' = "calculateSpeed"
    /\ arg' = [distanceInMeters |-> distanceInMeters, timeInSeconds |-> timeInSeconds]
    /\ out' = calculateSpeed(distanceInMeters, timeInSeconds)
    /\ UNCHANGED restVars

NextGeometry ==
    \/ \E from \in GeoPoints, to \in GeoPoints, bearingDeg \in BearingDegValues :
           CalculateDirection(from, to, bearingDeg)
    \/ \E from \in GeoPoints, to \in GeoPoints, haversine \in HaversineValues :
           CalculateDistance(from, to, haversine)
    \/ \E distanceInMeters \in SpeedInputs, timeInSeconds \in SpeedInputs :
           CalculateSpeed(distanceInMeters, timeInSeconds)

SpecGeometry == Init /\ [][NextGeometry]_vars

\* ---------------------------------------------- actions: materialization
\* The row list is drawn at the start; the action groups it.
InitMaterialize ==
    /\ InitState
    /\ \E n \in 0..MaxRows : \E cs \in [1..n -> FootprintColumns], k \in 0..MaxRows :
           /\ k < n \/ k = 0
           /\ arg = FootprintList(cs, k)

GroupFootprintsByTitle ==
    /\ fn' = "groupFootprintsByTitle"
    /\ arg' = arg
    /\ out' = groupFootprintsByTitle(arg)
    /\ UNCHANGED restVars

NextMaterialize == GroupFootprintsByTitle

SpecMaterialize == InitMaterialize /\ [][NextMaterialize]_vars

\* --------------------------------------------------- actions: storage
\* What no StorageService call touches.
appVars == <<storeVars, routeVars, hookVars, now, calls, returned, instVars, svcVars>>

\* initialize(), up to the first await: openDatabaseAsync resolves (opened)
\* or rejects; on rejection initialize() rejects and database keeps its value.
InitializeOpen(opened) ==
    /\ initPc = "idle"
    /\ IF opened
       THEN database' = Some("footprints.db") /\ initPc' = "opened"
       ELSE UNCHANGED <<database, initPc>>
    /\ UNCHANGED <<initDone, tableCreated, rows, nextId, sqlCalls, fetched>>
    /\ UNCHANGED <<callVars, appVars>>

\* initialize(), after the first await: CREATE TABLE IF NOT EXISTS succeeds,
\* or fails and initialize() rejects; database stays set either way.
InitializeExec(created) ==
    /\ initPc = "opened"
    /\ initPc' = "idle"
    /\ IF created
       THEN tableCreated' = TRUE /\ initDone' = TRUE
       ELSE UNCHANGED <<tableCreated, initDone>>
    /\ UNCHANGED <<database, rows, nextId, sqlCalls, fetched>>
    /\ UNCHANGED <<callVars, appVars>>

\* A faulty variant: no transaction, the rows inserted before the failing
\* INSERT stay.
createFootprintRun_NoRollback(title, points, failAt) ==
    /\ IF database = Null
       THEN /\ out' = NotInitialized
            /\ sqlCalls' = 0
            /\ UNCHANGED <<rows, nextId>>
       ELSE IF ~tableCreated /\ points # <<>>
       THEN /\ out' = SqlError
            /\ sqlCalls' = 2
            /\ UNCHANGED <<rows, nextId>>
       ELSE IF failAt > 0
       THEN /\ out' = SqlError
            /\ sqlCalls' = 1 + failAt
            /\ rows' = rows \o InsertedRows(title, SubSeq(points, 1, failAt - 1), nextId)
            /\ nextId' = nextId + failAt - 1
       ELSE /\ out' = Success(Len(points))
            /\ sqlCalls' = 1 + Len(points)
            /\ rows' = rows \o InsertedRows(title, points, nextId)
            /\ nextId' = nextId + Len(points)
    /\ UNCHANGED <<database, initPc, initDone, tableCreated, fetched>>

\* The body of createFootprint: what it returns and what it does to the
\* database.
createFootprintRun(title, points, failAt) ==
    /\ IF database = Null
       THEN /\ out' = NotInitialized
            /\ sqlCalls' = 0
            /\ UNCHANGED <<rows, nextId>>
       ELSE IF ~tableCreated /\ points # <<>>
       THEN /\ out' = SqlError
            /\ sqlCalls' = 2
            /\ UNCHANGED <<rows, nextId>>
       ELSE IF failAt > 0
       THEN /\ out' = SqlError
            /\ sqlCalls' = 1 + failAt
            /\ UNCHANGED <<rows, nextId>>
       ELSE /\ out' = Success(Len(points))
            /\ sqlCalls' = 1 + Len(points)
            /\ rows' = rows \o InsertedRows(title, points, nextId)
            /\ nextId' = nextId + Len(points)
    /\ UNCHANGED <<database, initPc, initDone, tableCreated, fetched>>

\* createFootprint(title, locationPoints): one transaction, one INSERT per
\* point; failAt > 0 is the INSERT that fails, which rolls all of them back.
CreateFootprint(title, points, failAt) ==
    /\ Len(rows) + Len(points) <= MaxRows
    /\ nextId + Len(points) - 1 <= MaxRowId
    /\ failAt <= Len(points)
    /\ fn' = "createFootprint"
    /\ arg' = [title |-> title, points |-> points]
    /\ createFootprintRun(title, points, failAt)
    /\ UNCHANGED appVars

\* The body of fetchFootprints: what it returns, and the ids it gave.
fetchFootprintsRun ==
    /\ IF database = Null
       THEN out' = NotInitialized /\ sqlCalls' = 0 /\ UNCHANGED fetched
       ELSE IF ~tableCreated
       THEN out' = SqlError /\ sqlCalls' = 1 /\ UNCHANGED fetched
       ELSE \E footprints \in QueryResults(rows) :
               /\ out' = RoutesOf(footprints)
               /\ sqlCalls' = 1
               /\ fetched' = IF RoutesOf(footprints).ok
                             THEN IdsOf(RoutesOf(footprints).value)
                             ELSE fetched
    /\ UNCHANGED <<database, initPc, initDone, tableCreated, rows, nextId>>

\* fetchFootprints()
FetchFootprints ==
    /\ fn' = "fetchFootprints"
    /\ arg' = Null
    /\ fetchFootprintsRun
    /\ UNCHANGED appVars

\* fetchFootprintsByTitle(title)
FetchFootprintsByTitle(title) ==
    /\ fn' = "fetchFootprintsByTitle"
    /\ arg' = title
    /\ IF database = Null
       THEN out' = NotInitialized /\ sqlCalls' = 0
       ELSE IF ~tableCreated
       THEN out' = SqlError /\ sqlCalls' = 1
       ELSE \E footprints \in QueryResults(SelectSeq(rows, LAMBDA f : f.title = title)) :
               /\ out' = RoutesOf(footprints)
               /\ sqlCalls' = 1
    /\ UNCHANGED <<database, initPc, initDone, tableCreated, rows, nextId, fetched>>
    /\ UNCHANGED appVars

\* The body of delete(title); the ids remembered for a deleted label are
\* forgotten.
deleteRun(title) ==
    /\ IF database = Null
       THEN out' = NotInitialized /\ sqlCalls' = 0 /\ UNCHANGED <<rows, fetched>>
       ELSE IF ~tableCreated
       THEN out' = SqlError /\ sqlCalls' = 1 /\ UNCHANGED <<rows, fetched>>
       ELSE /\ out' = Success(Len(SelectSeq(rows, LAMBDA f : f.title = title)))
            /\ sqlCalls' = 1
            /\ rows' = SelectSeq(rows, LAMBDA f : f.title # title)
            /\ fetched' = [label \in DOMAIN fetched \ {title} |-> fetched[label]]
    /\ UNCHANGED <<database, initPc, initDone, tableCreated, nextId>>

Delete(title) ==
    /\ fn' = "delete"
    /\ arg' = title
    /\ deleteRun(title)
    /\ UNCHANGED appVars

\* countFootprints()
CountFootprints ==
    /\ fn' = "countFootprints"
    /\ arg' = Null
    /\ IF database = Null
       THEN out' = NotInitialized /\ sqlCalls' = 0
       ELSE IF ~tableCreated
       THEN out' = SqlError /\ sqlCalls' = 1
       ELSE out' = Success(DistinctTitles(rows)) /\ sqlCalls' = 1
    /\ UNCHANGED <<database, initPc, initDone, tableCreated, rows, nextId, fetched>>
    /\ UNCHANGED appVars

NextStorage ==
    \/ \E opened \in BOOLEAN : InitializeOpen(opened)
    \/ \E created \in BOOLEAN : InitializeExec(created)
    \/ \E title \in Titles, n \in 0..MaxInsert, failAt \in 0..MaxInsert :
           \E points \in [1..n -> StoredPoints] : CreateFootprint(title, points, failAt)
    \/ FetchFootprints
    \/ \E title \in Titles : FetchFootprintsByTitle(title)
    \/ \E title \in Titles : Delete(title)
    \/ CountFootprints

SpecStorage == Init /\ [][NextStorage]_vars

\* initialize() and createFootprint alone, under two labels.
NextCreate ==
    \/ \E opened \in BOOLEAN : InitializeOpen(opened)
    \/ \E created \in BOOLEAN : InitializeExec(created)
    \/ \E title \in {t \in Titles : Len(t) <= 4}, n \in 0..MaxInsert, failAt \in 0..MaxInsert :
           \E points \in [1..n -> StoredPoints] : CreateFootprint(title, points, failAt)

SpecCreate == Init /\ [][NextCreate]_vars

\* --------------------------------------------- actions: store instances
\* Inputs of the instance operations.
InstSamples == {s \in Samples : s.timestamp = 1 /\ s.speed = Some(3)}
InstRoutes ==
    {r \in RouteValues : r.name = "Morning Walk" /\ r.id = "route-1" /\ r.startTime = 1}

\* What the store instances do not touch.
nonInstVars == <<storeVars, routeVars, hookVars, now, calls, returned, out, dbVars, svcVars>>

\* The call op on instance id of the footprint or the route store.
Called(op, store, id) == fn' = op /\ arg' = [store |-> store, id |-> id]

CreateFootprintStore ==
    /\ Cardinality(DOMAIN fpInst) + Cardinality(DOMAIN rtInst) < MaxInstances
    /\ createFootprintStoreAt(Cardinality(DOMAIN fpInst) + 1)
    /\ Called("createFootprintStore", "footprint", Cardinality(DOMAIN fpInst) + 1)
    /\ UNCHANGED <<rtInst, nonInstVars>>

CreateRouteStore ==
    /\ Cardinality(DOMAIN fpInst) + Cardinality(DOMAIN rtInst) < MaxInstances
    /\ createRouteStoreAt(Cardinality(DOMAIN rtInst) + 1)
    /\ Called("createRouteStore", "route", Cardinality(DOMAIN rtInst) + 1)
    /\ UNCHANGED <<fpInst, nonInstVars>>

StartCollectingAt(i) ==
    /\ startCollectingAt(i)
    /\ Called("startCollecting", "footprint", i)
    /\ UNCHANGED <<rtInst, nonInstVars>>

StopCollectingAt(i) ==
    /\ stopCollectingAt(i)
    /\ Called("stopCollecting", "footprint", i)
    /\ UNCHANGED <<rtInst, nonInstVars>>

ResetAt(i) ==
    /\ resetAt(i)
    /\ Called("reset", "footprint", i)
    /\ UNCHANGED <<rtInst, nonInstVars>>

AddLocationPointAt(i, location) ==
    /\ Len(FootprintView(fpInst[i], shared).locationPoints) < MaxOwn
    /\ addLocationPointAt(i, location)
    /\ Called("addLocationPoint", "footprint", i)
    /\ UNCHANGED <<rtInst, nonInstVars>>

AddRouteAt(i, route) ==
    /\ Len(RouteView(rtInst[i], shared).routes) < MaxOwn
    /\ addRouteAt(i, route)
    /\ Called("addRoute", "route", i)
    /\ UNCHANGED <<fpInst, nonInstVars>>

DeleteRouteByTitleAt(i, title) ==
    /\ deleteRouteByTitleAt(i, title)
    /\ Called("deleteRouteByTitle", "route", i)
    /\ UNCHANGED <<fpInst, nonInstVars>>

NextInstances ==
    \/ CreateFootprintStore
    \/ CreateRouteStore
    \/ \E i \in DOMAIN fpInst : StartCollectingAt(i)
    \/ \E i \in DOMAIN fpInst : StopCollectingAt(i)
    \/ \E i \in DOMAIN fpInst : ResetAt(i)
    \/ \E i \in DOMAIN fpInst, location \in InstSamples : AddLocationPointAt(i, location)
    \/ \E i \in DOMAIN rtInst, route \in InstRoutes : AddRouteAt(i, route)
    \/ \E i \in DOMAIN rtInst, title \in RouteNames : DeleteRouteByTitleAt(i, title)

SpecInstances == Init /\ [][NextInstances]_vars


\* ------------------------------------------------------- actions: export
EscapeCsvValue(value) ==
    /\ fn' = "escapeCsvValue"
    /\ arg' = value
    /\ out' = escapeCsvValue(value)
    /\ effects' = <<>>
    /\ UNCHANGED <<coreVars, mgmtVars, locVars, loadVars, watchVars>>

MakeCSVData(rs) ==
    /\ fn' = "makeCSVData"
    /\ arg' = rs
    /\ out' = makeCSVData(rs)
    /\ effects' = <<>>
    /\ UNCHANGED <<coreVars, mgmtVars, locVars, loadVars, watchVars>>

SendMailWithCSV(rs, api) ==
    /\ fn' = "sendMailWithCSV"
    /\ arg' = api
    /\ out' = sendMailWithCSV(rs, "to", api, now).result
    /\ effects' = sendMailWithCSV(rs, "to", api, now).effects
    /\ UNCHANGED <<coreVars, mgmtVars, locVars, loadVars, watchVars>>

NextExport ==
    \/ \E value \in CsvValues : EscapeCsvValue(value)
    \/ \E rs \in ExportRouteLists : MakeCSVData(rs)
    \/ \E rs \in {<<>>}, api \in ApiOutcomes : SendMailWithCSV(rs, api)

SpecExport == Init /\ [][NextExport]_vars


\* --------------------------------------------- actions: route management
\* Everything but the database, the hook state and the call record.
mgmtRestVars ==
    <<storeVars, routeVars, hookVars, now, calls, returned, instVars, watchVars>>

\* useEffect(() => { storageServiceRef.current = new StorageService(); ... }, [])
MountManagement ==
    /\ ~storageServiceRef
    /\ storageServiceRef' = TRUE
    /\ UNCHANGED <<callVars, effects, managementError, dbVars, mgmtRestVars, locVars, loadVars>>

\* saveRoute(route); out is the outcome of the storage call, Null when none
\* was made.
SaveRoute(name, points, failAt) ==
    /\ failAt <= Len(points)
    /\ fn' = "saveRoute"
    /\ arg' = [title |-> name, points |-> points]
    /\ IF ~validateRouteName(name).isValid
       THEN /\ managementError' = validateRouteName(name).error
            /\ effects' = <<>>
            /\ out' = Null
            /\ UNCHANGED dbVars
       ELSE IF ~storageServiceRef
       THEN /\ managementError' = Some("Storage service not initialized")
            /\ effects' = <<>>
            /\ out' = Null
            /\ UNCHANGED dbVars
       ELSE /\ effects' = <<ServiceCall("createFootprint", name)>>
            /\ createFootprintRun(name, points, failAt)
            /\ managementError' = IF out'.ok THEN Null ELSE errorMessage(out')
    /\ UNCHANGED <<storageServiceRef, mgmtRestVars, locVars, loadVars>>

\* deleteRoute(title)
DeleteRoute(title) ==
    /\ fn' = "deleteRoute"
    /\ arg' = [title |-> title, points |-> <<>>]
    /\ IF title = <<>> \/ trim(title) = <<>>
       THEN /\ managementError' = Some("Route title is required for deletion")
            /\ effects' = <<>>
            /\ out' = Null
            /\ UNCHANGED dbVars
       ELSE IF ~storageServiceRef
       THEN /\ managementError' = Some("Storage service not initialized")
            /\ effects' = <<>>
            /\ out' = Null
            /\ UNCHANGED dbVars
       ELSE /\ effects' = <<ServiceCall("delete", title)>>
            /\ deleteRun(title)
            /\ managementError' = IF out'.ok THEN Null ELSE errorMessage(out')
    /\ UNCHANGED <<storageServiceRef, mgmtRestVars, locVars, loadVars>>

\* loadRoutes() up to its await (refreshRoutes awaits loadRoutes and does
\* nothing else): clearError, setLoading(true), and the fetch is issued; an
\* unmounted hook has no service, which throws into the catch block.
LoadRoutes(via) ==
    /\ loadsInFlight < MaxLoads
    /\ fn' = via
    /\ arg' = [title |-> <<>>, points |-> <<>>]
    /\ out' = Null
    /\ IF ~storageServiceRef
       THEN /\ managementError' = Some("Storage service not initialized")
            /\ stateRoutes' = <<>>
            /\ isLoading' = FALSE
            /\ effects' = <<>>
            /\ UNCHANGED loadsInFlight
       ELSE /\ managementError' = Null
            /\ isLoading' = TRUE
            /\ effects' = <<ServiceCall("fetchFootprints", <<>>)>>
            /\ loadsInFlight' = loadsInFlight + 1
            /\ UNCHANGED stateRoutes
    /\ UNCHANGED <<storageServiceRef, dbVars, mgmtRestVars, locVars>>

\* loadRoutes() after its await: the fetch of one call in flight resolves
\* or rejects; out is its outcome.
LoadRoutesSettled ==
    /\ loadsInFlight > 0
    /\ fn' = "loadRoutesSettled"
    /\ arg' = [title |-> <<>>, points |-> <<>>]
    /\ fetchFootprintsRun
    /\ effects' = <<>>
    /\ loadsInFlight' = loadsInFlight - 1
    /\ isLoading' = FALSE
    /\ IF out'.ok
       THEN stateRoutes' = out'.value /\ UNCHANGED managementError
       ELSE stateRoutes' = <<>> /\ managementError' = errorMessage(out')
    /\ UNCHANGED <<storageServiceRef, mgmtRestVars, locVars>>

NextManagement ==
    \/ MountManagement
    \/ \E via \in {"loadRoutes", "refreshRoutes"} : LoadRoutes(via)
    \/ LoadRoutesSettled
    \/ \E name \in HookTitles, n \in 0..MaxInsert, failAt \in 0..MaxInsert :
           \E points \in [1..n -> StoredPoints] : SaveRoute(name, points, failAt)
    \/ \E title \in HookTitles : DeleteRoute(title)

SpecManagement == Init /\ [][NextManagement]_vars


\* ---------------------------------------------------- actions: tracking
trackRestVars ==
    <<storeVars, routeVars, error, now, calls, returned, dbVars, instVars, mgmtVars,
      loadVars, watchVars>>

\* The service as the variables hold it, no call made yet.
ServiceNow(hp) == Service(storedConfig, status, locationSubscription, hp, events, <<>>)

\* The heap once the caller has made the object it passes.
WithPassed(c) == IF c = Null THEN heap ELSE MapSet(heap, "passed", Val(c))

PassedId(c) == IF c = Null THEN Null ELSE Some("passed")

Becomes(svc) ==
    /\ storedConfig' = svc.config
    /\ status' = svc.status
    /\ locationSubscription' = svc.locationSubscription
    /\ heap' = svc.heap
    /\ effects' = svc.effects

SetTrackingHandlers ==
    /\ ~events
    /\ setEventHandlers
    /\ fn' = "setEventHandlers"
    /\ effects' = <<>>
    /\ UNCHANGED <<arg, out, locVars, trackRestVars>>

Configure(c) ==
    /\ fn' = "configure"
    /\ arg' = c
    /\ out' = Null
    /\ Becomes(configure(ServiceNow(WithPassed(c)), PassedId(c)))
    /\ UNCHANGED <<events, trackRestVars>>

\* getConfig(); out is the identity of the returned object.
GetConfig ==
    /\ fn' = "getConfig"
    /\ arg' = Null
    /\ out' = IF storedConfig = Null THEN Null ELSE Some("returned")
    /\ Becomes(getConfig(ServiceNow(heap)))
    /\ UNCHANGED <<events, trackRestVars>>

\* The caller changes enableBackground of the object it passed or of the
\* object getConfig returned.
MutateConfigObject(id) ==
    /\ id \in DOMAIN heap
    /\ fn' = "mutate"
    /\ arg' = Some(id)
    /\ out' = Null
    /\ effects' = <<>>
    /\ heap' = [heap EXCEPT ![id].enableBackground =
                    IF @ = Some(TRUE) THEN Some(FALSE) ELSE Some(TRUE)]
    /\ UNCHANGED <<storedConfig, status, locationSubscription, events, trackRestVars>>

\* A location event arrives; out is the sample handed to onLocationUpdate.
ReceiveLocationUpdate(locationData) ==
    /\ fn' = "handleLocationUpdate"
    /\ arg' = locationData
    /\ out' = IF events /\ validateLocationData(locationData)
              THEN Some(transformLocationData(locationData)) ELSE Null
    /\ Becomes(handleLocationUpdateOn(ServiceNow(heap), locationData))
    /\ UNCHANGED <<events, trackRestVars>>

StartTracking(c, api) ==
    /\ fn' = "startTracking"
    /\ arg' = [config |-> c, api |-> api]
    /\ out' = Null
    /\ Becomes(startTracking(ServiceNow(WithPassed(c)), PassedId(c), api))
    /\ UNCHANGED <<events, trackRestVars>>

StopTracking(api) ==
    /\ fn' = "stopTracking"
    /\ arg' = [config |-> Null, api |-> api]
    /\ out' = Null
    /\ Becomes(stopTracking(ServiceNow(heap), api))
    /\ UNCHANGED <<events, trackRestVars>>

NextTracking ==
    \/ SetTrackingHandlers
    \/ \E c \in {Null} \cup {Some(v) : v \in TrackingConfigs} : Configure(c)
    \/ GetConfig
    \/ \E id \in {"passed", "returned"} : MutateConfigObject(id)
    \/ \E locationData \in TrackingFixes : ReceiveLocationUpdate(locationData)
    \/ \E c \in {Null} \cup {Some(v) : v \in TrackingConfigs}, api \in StartOutcomes :
           StartTracking(c, api)
    \/ \E api \in StopOutcomes : StopTracking(api)

SpecTracking == Init /\ [][NextTracking]_vars

\* --------------------------------------------------- actions: collection
collectionRestVars == <<routeVars, calls, returned, dbVars, instVars, mgmtVars, loadVars>>

\* useEffect of useLocationCollection: the service is made and given the
\* hook's handlers at once, so events tells whether the hook is mounted.
MountCollection ==
    /\ ~events
    /\ setEventHandlers
    /\ fn' = "useEffect"
    /\ arg' = Null
    /\ out' = Null
    /\ effects' = <<>>
    /\ UNCHANGED <<storeVars, error, now, locVars, watchVars, collectionRestVars>>

\* startCollection() up to the first await of startTracking
StartCollection ==
    /\ Len(startsInFlight) + activeWatches < MaxStarts
    /\ fn' = "startCollection"
    /\ arg' = Null
    /\ out' = Null
    /\ IF ~events
       THEN /\ error' = Some("Location service not initialized")
            /\ effects' = <<>>
            /\ UNCHANGED <<storeVars, locVars, startsInFlight, overtaken>>
       ELSE LET svc == startTrackingBegin(
                           ServiceNow(WithPassed(Some(CollectionConfig))), Some("passed"))
            IN  /\ startCollecting
                /\ Becomes(svc)
                /\ error' = ErrorAfter(Null, svc.effects)
                /\ startsInFlight' = Append(startsInFlight, "services")
                /\ overtaken' = FALSE
    /\ UNCHANGED <<events, now, stopsInFlight, activeWatches, collectionRestVars>>

\* The call awaited by the i-th startTracking in flight settles, and
\* startTracking runs to its next await or to its end; out is where it is then.
ContinueStartTracking(i, api) ==
    /\ i \in DOMAIN startsInFlight
    /\ api \in StepOutcomes(startsInFlight[i])
    /\ LET pc == startsInFlight[i]
           background == Truthy(CollectionConfig.enableBackground)
           next == startTrackingNext(pc, background, api)
           svc == startTrackingStep(ServiceNow(heap), pc, background, api)
       IN  /\ fn' = "startTracking"
           /\ arg' = [config |-> Some(CollectionConfig), api |-> api]
           /\ out' = Some(next)
           /\ Becomes(svc)
           /\ error' = ErrorAfter(error, svc.effects)
           /\ startsInFlight' =
                  IF next = "done"
                  THEN SubSeq(startsInFlight, 1, i - 1)
                           \o SubSeq(startsInFlight, i + 1, Len(startsInFlight))
                  ELSE [startsInFlight EXCEPT ![i] = next]
           /\ activeWatches' = activeWatches + Cardinality({k \in DOMAIN svc.effects :
                                    svc.effects[k] = HandlerCall("watchPositionAsync", "ok")})
    /\ UNCHANGED <<storeVars, events, now, stopsInFlight, overtaken, collectionRestVars>>

\* A faulty variant: a stopTracking() that fails rejects, so that the catch
\* block of stopCollection runs and the call ends without its continuation.
StopCollection_RejectsOnFailure(id, remove) ==
    /\ Len(stopsInFlight) < MaxStops
    /\ id \notin {stopsInFlight[k] : k \in DOMAIN stopsInFlight}
    /\ \A other \in 1..(id - 1) : other \in {stopsInFlight[k] : k \in DOMAIN stopsInFlight}
    /\ remove = "throws" => locationSubscription # Null
    /\ fn' = "stopCollection"
    /\ arg' = Null
    /\ out' = Null
    /\ IF ~events
       THEN /\ error' = Some("Location service not initialized")
            /\ effects' = <<>>
            /\ UNCHANGED <<locVars, watchVars>>
       ELSE LET svc == IF remove = "throws" THEN stopTrackingRemoveThrows(ServiceNow(heap))
                       ELSE stopTracking(ServiceNow(heap), AllResolve)
            IN  /\ Becomes(svc)
                /\ error' = ErrorAfter(Null, svc.effects)
                /\ activeWatches' = activeWatches - Cardinality({k \in DOMAIN svc.effects :
                                         svc.effects[k] = HandlerCall("remove", "watch")})
                /\ stopsInFlight' = IF remove = "throws" THEN stopsInFlight
                                    ELSE Append(stopsInFlight, id)
                /\ overtaken' = (startsInFlight # <<>>)
                /\ UNCHANGED startsInFlight
    /\ UNCHANGED <<storeVars, events, now, collectionRestVars>>

\* stopCollection() up to its await: stopTracking() runs to its end, since
\* the hook never enables background tracking; remove() returns or throws.
StopCollection(id, remove) ==
    /\ Len(stopsInFlight) < MaxStops
    /\ id \notin {stopsInFlight[k] : k \in DOMAIN stopsInFlight}
    /\ \A other \in 1..(id - 1) : other \in {stopsInFlight[k] : k \in DOMAIN stopsInFlight}
    /\ remove = "throws" => locationSubscription # Null
    /\ fn' = "stopCollection"
    /\ arg' = Null
    /\ out' = Null
    /\ IF ~events
       THEN /\ error' = Some("Location service not initialized")
            /\ effects' = <<>>
            /\ UNCHANGED <<locVars, watchVars>>
       ELSE LET svc == IF remove = "throws" THEN stopTrackingRemoveThrows(ServiceNow(heap))
                       ELSE stopTracking(ServiceNow(heap), AllResolve)
            IN  /\ Becomes(svc)
                /\ error' = ErrorAfter(Null, svc.effects)
                /\ activeWatches' = activeWatches - Cardinality({k \in DOMAIN svc.effects :
                                         svc.effects[k] = HandlerCall("remove", "watch")})
                /\ stopsInFlight' = Append(stopsInFlight, id)
                /\ overtaken' = (startsInFlight # <<>>)
                /\ UNCHANGED startsInFlight
    /\ UNCHANGED <<storeVars, events, now, collectionRestVars>>

\* stopCollection() after its await, for the oldest call in flight:
\* footprintStore.stopCollecting()
StopCollectionSettled ==
    /\ stopsInFlight # <<>>
    /\ stopCollecting
    /\ stopsInFlight' = Tail(stopsInFlight)
    /\ fn' = "stopCollectionSettled"
    /\ effects' = <<>>
    /\ UNCHANGED <<arg, out, hookVars, now, locVars, startsInFlight, activeWatches,
                   overtaken, collectionRestVars>>

\* The platform delivers an event to the callback of every position watch
\* it holds; arg tells whether a stopCollection call was in flight, out is
\* the number of samples in the store afterwards.
DeliverLocation ==
    /\ activeWatches > 0
    /\ now < MaxClock
    /\ Len(locationPoints) + activeWatches <= MaxPoints
    /\ now' = now + 1
    /\ fn' = "handleLocationUpdate"
    /\ arg' = [stopping |-> stopsInFlight # <<>>]
    /\ SetState(handedToStore(FootprintState, transformLocationData(FixAt(now')),
                              activeWatches))
    /\ out' = Some(Len(locationPoints'))
    /\ effects' = [k \in 1..activeWatches |-> HandlerCall("onLocationUpdate", "sample")]
    /\ UNCHANGED <<hookVars, locVars, watchVars, collectionRestVars>>

NextCollection ==
    \/ MountCollection
    \/ StartCollection
    \/ \E i \in 1..MaxStarts, api \in StartOutcomes : ContinueStartTracking(i, api)
    \/ \E id \in 1..MaxStops, remove \in {"ok", "throws"} : StopCollection(id, remove)
    \/ StopCollectionSettled
    \/ DeliverLocation

SpecCollection == Init /\ [][NextCollection]_vars

\* The continuation of an await whose promise has settled is run by the
\* microtask queue, oldest first.
SpecCollectionFair == SpecCollection /\ WF_vars(StopCollectionSettled)

\* ------------------------------------------------ call log, read backwards
\* Back(k) is the k-th most recent call (Back(0) is the last one).
Back(k) == IF Len(calls) > k THEN calls[Len(calls) - k] ELSE "none"

IsPrefix(s, t) == Len(s) <= Len(t) /\ SubSeq(t, 1, Len(s)) = s

Last(s) == s[Len(s)]

\* ===================================================== collection session
\* C1: in every reachable session state, isCollecting = false implies
\* locationPoints = [], startTime = null, currentLocation = null and
\* currentSpeed = null.
C1_IdleIsReset ==
    ~isCollecting =>
        /\ locationPoints = <<>>
        /\ startTime = Null
        /\ currentLocation = Null
        /\ currentSpeed = Null

\* C1 witness: the session was stopped right after a sample had been appended.
C1_Witness ==
    /\ ~isCollecting
    /\ Back(0) \in {"stopCollecting", "reset"}
    /\ Back(1) = "addLocationPoint"
    /\ Back(2) = "startCollecting"

\* C2: an addLocationPoint call made while the session is Idle changes no
\* session field, and the session it leaves is the initial state.
C2_IdleAddIsNoOp ==
    [][(AddLocationPoint /\ ~isCollecting)
          => (UNCHANGED storeVars /\ FootprintState' = initialState)]_vars

\* C2 witness: two late samples arrived after a stop that ended a session
\* with samples, and the session is still the initial state.
C2_Witness ==
    /\ Back(0) = "addLocationPoint"
    /\ Back(1) = "addLocationPoint"
    /\ Back(2) \in {"stopCollecting", "reset"}
    /\ Back(3) = "addLocationPoint"
    /\ FootprintState = initialState

\* C3: currentLocation and currentSpeed mirror the most recently appended
\* sample (speed verbatim, null included); both are null when there is none.
C3_CurrentMirrorsLast ==
    IF locationPoints = <<>>
    THEN currentLocation = Null /\ currentSpeed = Null
    ELSE /\ currentLocation = Some(Last(locationPoints))
         /\ currentSpeed = Last(locationPoints).speed

\* C3 witness: a sample with null speed was appended after one with a speed.
C3_Witness ==
    /\ Len(locationPoints) >= 2
    /\ Last(locationPoints).speed = Null
    /\ locationPoints[Len(locationPoints) - 1].speed # Null
    /\ Back(0) = "addLocationPoint"

\* C4 (as claimed): every startCollecting call yields isCollecting = true, a
\* start time stamped at the call, and an empty locationPoints sequence.
C4_StartResetsSamples ==
    [][StartCollecting
          => (isCollecting' /\ startTime' = Some(now) /\ locationPoints' = <<>>)]_vars

\* C5: while Collecting, locationPoints is append-only: over every step that
\* starts and ends Collecting the old sequence is a prefix of the new one,
\* and addLocationPoint(s) extends it by exactly s at the end.
C5_AppendOnly ==
    [][(isCollecting /\ isCollecting')
          => /\ IsPrefix(locationPoints, locationPoints')
             /\ \A s \in Samples :
                    addLocationPoint(s) => locationPoints' = Append(locationPoints, s)]_vars

\* C5 witness: Collecting with two samples around a repeated startCollecting.
C5_Witness ==
    /\ isCollecting
    /\ Len(locationPoints) >= 2
    /\ Back(0) = "addLocationPoint"
    /\ Back(1) = "startCollecting"
    /\ Back(2) = "addLocationPoint"

\* ========================================================== route catalog
Indices(rs) == 1..Len(rs)

CountWhere(rs, P(_)) == Cardinality({i \in Indices(rs) : P(rs[i])})

RemoveAt(rs, k) == SubSeq(rs, 1, k - 1) \o SubSeq(rs, k + 1, Len(rs))

SortedNewestFirst(rs) ==
    \A i, j \in Indices(rs) : i < j => rs[i].startTime >= rs[j].startTime

\* C7 (as claimed): the id -> Route mapping and the routes sequence hold the
\* same entries: every route of the sequence is the value stored under its
\* id, every mapping entry is in the sequence, and the sizes agree.
C7_MapMatchesSequence ==
    /\ \A i \in Indices(routes) :
           routes[i].id \in DOMAIN routeMap /\ routeMap[routes[i].id] = routes[i]
    /\ \A k \in DOMAIN routeMap : \E i \in Indices(routes) : routes[i] = routeMap[k]
    /\ Cardinality(DOMAIN routeMap) = Len(routes)

\* C8 (as claimed): after addRoute(r) exactly one route of getAllRoutes() has
\* the id of r, and it is r; adding an id that is already present does not
\* increase getRouteCount().
C8_AddInsertsOrReplaces ==
    [][\A r \in RouteValues : AddRoute(r) =>
          /\ CountWhere(getAllRoutes', LAMBDA x : x.id = r.id) = 1
          /\ \A i \in Indices(getAllRoutes') :
                 getAllRoutes'[i].id = r.id => getAllRoutes'[i] = r
          /\ (\E i \in Indices(routes) : routes[i].id = r.id)
                 => getRouteCount' <= getRouteCount]_vars

\* C9: getAllRoutes() is always sorted by startTime, newest first; addRoute
\* puts the new route behind every route with the same or a later startTime
\* and keeps the relative order of the others; deleteRouteByTitle keeps the
\* relative order of the routes it leaves.
C9_SortedStable ==
    /\ []SortedNewestFirst(getAllRoutes)
    /\ [][\A r \in RouteValues : AddRoute(r) =>
             \E k \in Indices(routes') :
                 /\ routes'[k] = r
                 /\ RemoveAt(routes', k) = routes
                 /\ \A i \in Indices(routes') :
                        /\ i < k => routes'[i].startTime >= r.startTime
                        /\ i > k => routes'[i].startTime < r.startTime]_vars
    /\ [][\A t \in RouteNames : DeleteRouteByTitle(t) =>
             routes' = SelectSeq(routes, LAMBDA x : x.name # t)]_vars

\* C9 witness: three routes, the first two with the same startTime and added
\* in that order, the third one older.
C9_Witness ==
    /\ Len(routes) = 3
    /\ routes[1].startTime = routes[2].startTime
    /\ routes[1] # routes[2]
    /\ routes[3].startTime < routes[2].startTime
    /\ Back(0) = "addRoute"
    /\ routeMap[routes[2].id] = routes[2]

\* C10: deleteRouteByTitle(name) removes from the routes exactly those named
\* name, returns true iff it removed at least one, changes nothing when no
\* route matches, lowers getRouteCount() by the number removed, and leaves
\* getRoutesByTitle(name) empty.
C10_DeleteByTitle ==
    [][\A t \in RouteNames : DeleteRouteByTitle(t) =>
          LET removed == CountWhere(routes, LAMBDA x : x.name = t) IN
          /\ \A r \in RouteValues :
                 CountWhere(routes', LAMBDA x : x = r)
                     = IF r.name = t THEN 0 ELSE CountWhere(routes, LAMBDA x : x = r)
          /\ returned' = Some(removed > 0)
          /\ removed = 0 => (routes' = routes /\ routeMap' = routeMap)
          /\ getRouteCount' = getRouteCount - removed
          /\ getRoutesByTitle(t)' = <<>>]_vars

\* C10 witness: a delete removed two routes of one name and kept another.
C10_Witness ==
    /\ Back(0) = "deleteRouteByTitle"
    /\ Back(1) = "addRoute"
    /\ Back(2) = "addRoute"
    /\ Back(3) = "addRoute"
    /\ returned = Some(TRUE)
    /\ Len(routes) = 1

\* ====================================================== location pipeline
\* The GPS Sample invariant of the data model.
SampleInvariant(p) ==
    /\ Abs(p.latitude) <= 90
    /\ Abs(p.longitude) <= 180
    /\ p.accuracy >= 0
    /\ p.speed = Null \/ Val(p.speed) >= 0
    /\ p.heading = Null \/ (Val(p.heading) >= 0 /\ Val(p.heading) <= 360)

\* C6 (as claimed): every sample that reached locationPoints through
\* handleLocationUpdate and the hook's handler satisfies the GPS Sample
\* invariant.
C6_PipelineSamplesValid ==
    \A i \in 1..Len(locationPoints) : SampleInvariant(locationPoints[i])

\* ------------------------------------------------------- sample validation
FieldOrder == <<"latitude", "longitude", "accuracy", "speed", "heading">>

ErrorCodeOf ==
    [latitude |-> "LATITUDE_OUT_OF_RANGE", longitude |-> "LONGITUDE_OUT_OF_RANGE",
     accuracy |-> "NEGATIVE_ACCURACY", speed |-> "NEGATIVE_SPEED",
     heading |-> "INVALID_HEADING"]

\* A sample every field of which is acceptable.
Benign ==
    [latitude |-> 0, longitude |-> 180, accuracy |-> 0, speed |-> Null, heading |-> Null]

\* The field f of s is invalid when the validator rejects the sample that has
\* this one field of s and acceptable values everywhere else.
FieldInvalid(s, f) ==
    ~validateLocationPointDetailed([Benign EXCEPT ![f] = s[f]]).isValid

InvalidFields(s) == {i \in 1..Len(FieldOrder) : FieldInvalid(s, FieldOrder[i])}

FirstOf(is) == CHOOSE i \in is : \A j \in is : i <= j

GpsSampleInvariant(s) ==
    /\ JsLe(Abs(s.latitude), MAX_LATITUDE)
    /\ JsLe(Abs(s.longitude), MAX_LONGITUDE)
    /\ JsGe(s.accuracy, 0)
    /\ s.speed = Null \/ JsGe(Val(s.speed), 0)
    /\ s.heading = Null \/ (JsGe(Val(s.heading), 0) /\ JsLe(Val(s.heading), 360))

\* C18: validateLocationPoint(s) and validateLocationPointDetailed(s).isValid
\* are true exactly when s satisfies |latitude| <= 90, |longitude| <= 180,
\* accuracy >= 0, speed null or >= 0, heading null or within [0, 360]; an
\* invalid result always carries an error.
C18_ValidIffInvariant ==
    /\ fn = "validateLocationPoint" => (out <=> GpsSampleInvariant(arg))
    /\ fn = "validateLocationPointDetailed" =>
           /\ out.isValid <=> GpsSampleInvariant(arg)
           /\ ~out.isValid => out.error # Null

\* ------------------------------------------------------- accuracy tiers
SixTiers ==
    {"best-for-navigation", "best", "nearest-ten-meters", "hundred-meters",
     "kilometer", "three-kilometers"}

\* C19: the accuracy validators accept exactly the six tiers, validateConfig
\* accepts an otherwise valid configuration exactly when its accuracy is one
\* of the six, and the six tiers map to six distinct provider values.
C19_SixTiersAccepted ==
    /\ fn = "validateGPSAccuracy" => (out <=> arg \in SixTiers)
    /\ fn = "validateGPSAccuracyDetailed" => (out.isValid <=> arg \in SixTiers)
    /\ (/\ fn = "validateConfig"
        /\ arg # Null
        /\ Val(arg).enableBackground # Null
        /\ IntervalOk(Val(arg).distanceInterval)
        /\ IntervalOk(Val(arg).timeInterval))
           => (out <=> Val(arg).accuracy \in SixTiers)
    /\ (fn = "mapGPSAccuracyToExpo" /\ arg \in SixTiers) =>
           /\ out # Null
           /\ \A other \in SixTiers \ {arg} : mapGPSAccuracyToExpo(other) # out

\* ----------------------------------------------------------------- bearing
\* C20: for every valid pair of points that are not identical,
\* calculateDirection returns a bearing in [0, 360): the value rounded to six
\* decimals is never negative and never 360 or more.
C20_BearingBelow360 ==
    (fn = "calculateDirection" /\ out.ok) =>
        /\ out.value >= 0
        /\ out.value < 360 * MICRO

\* ------------------------------------------------------- materialization
Grouped == fn = "groupFootprintsByTitle"

\* The rows of the input with the given label, in input order.
RowsOf(label) == SelectSeq(arg, LAMBDA f : f.title = label)

Labels == {arg[i].title : i \in DOMAIN arg}

\* The sample a row stands for.
PointOf(row) ==
    [latitude |-> row.latitude, longitude |-> row.longitude,
     timestamp |-> row.timestamp[2], accuracy |-> row.accuracy,
     speed |-> row.speed, heading |-> row.direction]

\* C12: materialization partitions the rows by label: it succeeds for every
\* row list, returns exactly one Route per distinct label, every row is in
\* the locationPoints of the Route named by its label and in no other, and
\* zero rows give the empty list.
C12_OneRoutePerLabel ==
    Grouped =>
        /\ out.ok
        /\ \A label \in Labels :
               Cardinality({k \in DOMAIN out.value : out.value[k].name = label}) = 1
        /\ \A k \in DOMAIN out.value :
               /\ out.value[k].name \in Labels
               /\ LET points == out.value[k].locationPoints
                      labelRows == RowsOf(out.value[k].name)
                  IN  /\ Len(points) = Len(labelRows)
                      /\ \A i \in DOMAIN labelRows :
                             Cardinality({j \in DOMAIN points : points[j] = PointOf(labelRows[i])})
                               = Cardinality({j \in DOMAIN labelRows :
                                                 PointOf(labelRows[j]) = PointOf(labelRows[i])})
        /\ arg = <<>> => out.value = <<>>

\* C13: every Route produced has startTime = the least timestamp of its
\* points, endTime = the greatest, pointCount = the number of its points,
\* at least one point, and startTime <= endTime, whatever the row order.
C13_TimeBounds ==
    (Grouped /\ out.ok) =>
        \A k \in DOMAIN out.value :
            LET r == out.value[k]
                ts == {r.locationPoints[i].timestamp : i \in DOMAIN r.locationPoints}
            IN  /\ r.pointCount = Len(r.locationPoints)
                /\ r.pointCount >= 1
                /\ r.startTime \in ts /\ \A t \in ts : r.startTime <= t
                /\ r.endTime \in ts /\ \A t \in ts : r.endTime >= t
                /\ r.startTime <= r.endTime

\* A Route was built from rows that are not in time order: its first point
\* is later than its last one.
C13_Witness ==
    /\ Grouped /\ out.ok
    /\ \E k \in DOMAIN out.value :
           LET r == out.value[k] IN
           /\ r.pointCount >= 2
           /\ r.locationPoints[1].timestamp > r.locationPoints[r.pointCount].timestamp
           /\ r.startTime < r.endTime

\* The timestamps of a point list never decrease.
Ascending(points) ==
    \A i, j \in DOMAIN points : i < j => points[i].timestamp <= points[j].timestamp

\* C14: locationPoints of a Route are the rows of its label in input order,
\* each row's direction being the sample's heading; when those rows are in
\* ascending time order so are the points, startTime is the timestamp of
\* the first point and endTime that of the last.
C14_InputOrderKept ==
    (Grouped /\ out.ok) =>
        \A k \in DOMAIN out.value :
            LET r == out.value[k]
                labelRows == RowsOf(r.name)
            IN  /\ Len(r.locationPoints) = Len(labelRows)
                /\ \A i \in DOMAIN labelRows : r.locationPoints[i] = PointOf(labelRows[i])
                /\ (\A i, j \in DOMAIN labelRows :
                        i < j => labelRows[i].timestamp[2] <= labelRows[j].timestamp[2])
                     => /\ Ascending(r.locationPoints)
                        /\ r.startTime = r.locationPoints[1].timestamp
                        /\ r.endTime = r.locationPoints[Len(r.locationPoints)].timestamp

\* Two labels interleaved in the input, the rows of one in ascending time
\* order and with different directions: its Route has them in that order.
C14_Witness ==
    /\ Grouped /\ out.ok
    /\ Len(arg) = 3 /\ arg[1].title = arg[3].title /\ arg[2].title # arg[1].title
    /\ arg[1].timestamp[2] < arg[3].timestamp[2]
    /\ arg[1].direction = Some(90) /\ arg[3].direction = Null
    /\ \E k \in DOMAIN out.value :
           /\ out.value[k].name = arg[1].title
           /\ out.value[k].locationPoints[1].heading = Some(90)
           /\ out.value[k].locationPoints[2].heading = Null

\* ----------------------------------------------------------------- storage
StorageOps ==
    {"createFootprint", "fetchFootprints", "fetchFootprintsByTitle", "delete",
     "countFootprints"}

\* The step is a call of the StorageService operation op.
StorageCall(op) == fn' = op /\ initPc' = initPc

\* No two rows of one label carry the same timestamp.
NoTies(rs) ==
    \A i, j \in DOMAIN rs :
        (i # j /\ rs[i].title = rs[j].title) => rs[i].timestamp # rs[j].timestamp

\* C15: route ids are stable: the id of a Route is slug(label), '-', the id
\* of the first row of the label's group, and a label that was persisted at
\* the previous fetch keeps its id at the next fetch, whichever rows were
\* inserted in between. Labels whose rows share a timestamp are left out,
\* their order in the query result being unspecified.
C15_RouteIdsStable ==
    [][(StorageCall("fetchFootprints") /\ out'.ok /\ NoTies(rows)) =>
          \A k \in DOMAIN out'.value :
              LET r == out'.value[k] IN
              /\ \E i \in DOMAIN rows :
                     /\ rows[i].title = r.name
                     /\ \A j \in DOMAIN rows :
                            rows[j].title = r.name => ~IsoLess(rows[j].timestamp, rows[i].timestamp)
                     /\ r.id = toLowerCase(ReplaceWhiteSpace(r.name))
                                  \o <<"-">> \o <<ToString(rows[i].id)>>
              /\ r.name \in DOMAIN fetched => r.id = fetched[r.name]]_vars

\* C16: an operation called before initialize() has succeeded fails with
\* 'Database not initialized' and makes no call into SQLite; once
\* initialize() has succeeded no operation fails with that error.
C16_GuardedByInitialize ==
    [][\A op \in StorageOps :
          StorageCall(op) =>
              IF initDone
              THEN out' # NotInitialized
              ELSE out' = NotInitialized /\ sqlCalls' = 0]_vars

\* --------------------------------------------------------- store instances
\* C11: store instances are isolated: an operation on one instance leaves
\* the state every other instance shows unchanged, and a newly created
\* instance shows the empty initial state whatever happened before.
C11_InstancesIsolated ==
    [][/\ \A j \in DOMAIN fpInst :
              \/ arg' = [store |-> "footprint", id |-> j]
              \/ FootprintView(fpInst'[j], shared') = FootprintView(fpInst[j], shared)
       /\ \A j \in DOMAIN rtInst :
              \/ arg' = [store |-> "route", id |-> j]
              \/ RouteView(rtInst'[j], shared') = RouteView(rtInst[j], shared)
       /\ fn' = "createFootprintStore" =>
              FootprintView(fpInst'[arg'.id], shared') = initialState
       /\ fn' = "createRouteStore" =>
              RouteView(rtInst'[arg'.id], shared') = [routes |-> <<>>, routeMap |-> EmptyMap]]_vars

\* A second footprint store was created after the first had collected
\* samples and while a route store holds a route.
C11_Witness ==
    /\ fn = "createFootprintStore" /\ arg.id = 2
    /\ FootprintView(fpInst[1], shared).locationPoints # <<>>
    /\ FootprintView(fpInst[2], shared) = initialState
    /\ DOMAIN rtInst = {1}
    /\ RouteView(rtInst[1], shared).routes # <<>>


\* ---------------------------------------------------- distance and speed
\* A point that calculations accept: present, both coordinates finite
\* numbers, latitude within +-90 and longitude within +-180.
CoordFinite(c) == c.deg # NaN /\ c.deg # Infinity /\ c.deg # -Infinity

LatInRange(c) == (-90 < c.deg /\ c.deg < 90) \/ (c.deg = 90 /\ c.sub = 0) \/ c.deg = -90

LonInRange(c) == (-180 < c.deg /\ c.deg < 180) \/ (c.deg = 180 /\ c.sub = 0) \/ c.deg = -180

ValidGeoPoint(p) ==
    /\ p # Null
    /\ CoordFinite(Val(p).latitude) /\ CoordFinite(Val(p).longitude)
    /\ LatInRange(Val(p).latitude) /\ LonInRange(Val(p).longitude)

\* Both coordinate differences are below 1e-10.
NearlySame(a, b) ==
    /\ a.latitude.deg = b.latitude.deg /\ a.longitude.deg = b.longitude.deg
    /\ a.latitude.sub - b.latitude.sub < EPSILON
    /\ b.latitude.sub - a.latitude.sub < EPSILON
    /\ a.longitude.sub - b.longitude.sub < EPSILON
    /\ b.longitude.sub - a.longitude.sub < EPSILON

\* The coordinate validation error of an invalid point: its first invalid
\* field, a non-number being reported before a number out of range.
CoordinateError(p, name) ==
    IF p = Null THEN [code |-> "INVALID_TYPE", field |-> name]
    ELSE IF ~CoordFinite(Val(p).latitude)
    THEN [code |-> "INVALID_VALUE", field |-> name \o ".latitude"]
    ELSE IF ~CoordFinite(Val(p).longitude)
    THEN [code |-> "INVALID_VALUE", field |-> name \o ".longitude"]
    ELSE IF ~LatInRange(Val(p).latitude)
    THEN [code |-> "LATITUDE_OUT_OF_RANGE", field |-> name \o ".latitude"]
    ELSE [code |-> "LONGITUDE_OUT_OF_RANGE", field |-> name \o ".longitude"]

GeometryCall == fn \in {"calculateDistance", "calculateDirection"}

\* C21: for valid points whose coordinate differences are both below 1e-10,
\* calculateDistance returns exactly 0 and calculateDirection fails with
\* IDENTICAL_POINTS; when a point is invalid both functions fail with the
\* coordinate validation error of the first invalid argument, 'from' before
\* 'to'.
C21_IdenticalOrInvalid ==
    GeometryCall =>
        /\ (ValidGeoPoint(arg.from) /\ ValidGeoPoint(arg.to)
                /\ NearlySame(Val(arg.from), Val(arg.to))) =>
              IF fn = "calculateDistance"
              THEN out = Success(0)
              ELSE out = Failure("IDENTICAL_POINTS", "")
        /\ ~ValidGeoPoint(arg.from) =>
              out = [ok |-> FALSE, error |-> CoordinateError(arg.from, "from")]
        /\ (ValidGeoPoint(arg.from) /\ ~ValidGeoPoint(arg.to)) =>
              out = [ok |-> FALSE, error |-> CoordinateError(arg.to, "to")]

\* Two distinct valid points 5 * 10^-11 degrees apart, a nonzero haversine
\* value, and calculateDistance has returned 0.
C21_Witness ==
    /\ fn = "calculateDistance"
    /\ ValidGeoPoint(arg.from) /\ ValidGeoPoint(arg.to)
    /\ arg.from # arg.to
    /\ NearlySame(Val(arg.from), Val(arg.to))
    /\ arg.haversine > 0
    /\ out = Success(0)

\* Both points invalid with different errors: the error reported is the one
\* of 'from'.
C21_WitnessInvalid ==
    /\ GeometryCall
    /\ ~ValidGeoPoint(arg.from) /\ ~ValidGeoPoint(arg.to)
    /\ CoordinateError(arg.from, "x") # CoordinateError(arg.to, "x")
    /\ ~out.ok

Finite(x) == x # NaN /\ x # Infinity /\ x # -Infinity

\* C22: calculateSpeed returns a value iff the distance is finite and >= 0
\* and the seconds are finite and > 0; otherwise it fails, a non-finite
\* distance taking precedence over a non-finite time, that over a negative
\* distance, and that over seconds <= 0; it never divides by zero and the
\* result is never negative.
C22_SpeedContract ==
    fn = "calculateSpeed" =>
        LET d == arg.distanceInMeters
            t == arg.timeInSeconds
        IN  /\ out.ok <=> (Finite(d) /\ d >= 0 /\ Finite(t) /\ t > 0)
            /\ ~Finite(d) => out = Failure("INVALID_VALUE", "distanceInMeters")
            /\ (Finite(d) /\ ~Finite(t)) => out = Failure("INVALID_VALUE", "timeInSeconds")
            /\ (Finite(d) /\ Finite(t) /\ d < 0) =>
                  out = Failure("NEGATIVE_VALUE", "distanceInMeters")
            /\ (Finite(d) /\ Finite(t) /\ d >= 0 /\ t <= 0) =>
                  out = Failure("ZERO_OR_NEGATIVE_VALUE", "timeInSeconds")
            /\ out.ok => (t # 0 /\ out.value >= 0)

\* A negative distance with an infinite time: the time is reported.
C22_Witness ==
    /\ fn = "calculateSpeed"
    /\ Finite(arg.distanceInMeters) /\ arg.distanceInMeters < 0
    /\ ~Finite(arg.timeInSeconds)
    /\ out = Failure("INVALID_VALUE", "timeInSeconds")


\* ------------------------------------------------------------------ export
HeaderRow ==
    <<"Route", ",", "Latitude", ",", "Longitude", ",", "Timestamp", ",",
      "Accuracy", ",", "Speed", ",", "Heading">>

\* Every row followed by one newline.
RECURSIVE Terminated(_)
Terminated(rowList) ==
    IF rowList = <<>> THEN <<>>
    ELSE Head(rowList) \o <<"\n">> \o Terminated(Tail(rowList))

\* C23: makeCSVData returns the header row followed by exactly one row per
\* sample, routes in list order and points in route order, every row
\* terminated by one newline and nothing else; without any point the output
\* is the header line and one newline.
C23_HeaderThenOneRowPerSample ==
    fn = "makeCSVData" => out = Terminated(<<HeaderRow>> \o RowsOfRoutes(arg))

\* RFC 4180 reading of a record: the number of commas outside quoted
\* sections, and whether a newline occurs outside them.
RECURSIVE BareCount(_, _, _)
BareCount(text, inQuotes, chars) ==
    IF text = <<>> THEN 0
    ELSE IF Head(text) = "\"" THEN BareCount(Tail(text), ~inQuotes, chars)
    ELSE (IF ~inQuotes /\ Head(text) \in chars THEN 1 ELSE 0)
            + BareCount(Tail(text), inQuotes, chars)

\* RFC 4180 un-escaping of the content of a quoted field
RECURSIVE Undouble(_)
Undouble(text) ==
    IF text = <<>> THEN <<>>
    ELSE IF Len(text) >= 2 /\ text[1] = "\"" /\ text[2] = "\""
    THEN <<"\"">> \o Undouble(SubSeq(text, 3, Len(text)))
    ELSE <<Head(text)>> \o Undouble(Tail(text))

Unescape(field) ==
    IF Len(field) >= 2 /\ field[1] = "\"" /\ field[Len(field)] = "\""
    THEN Undouble(SubSeq(field, 2, Len(field) - 1))
    ELSE field

NeedsQuoting(value) == \E i \in DOMAIN value : value[i] \in {",", "\"", "\n"}

\* C24: a name containing a comma, a double quote or a newline is emitted in
\* double quotes with every internal quote doubled, any other name is emitted
\* unchanged; un-escaping the field gives the name back, and the field holds
\* no separator outside quotes, so the row keeps its seven columns.
C24_EscapeRoundTrips ==
    fn = "escapeCsvValue" =>
        /\ NeedsQuoting(arg) =>
              /\ Len(out) >= 2 /\ out[1] = "\"" /\ out[Len(out)] = "\""
              /\ Len(out) = Len(arg) + 2 + Cardinality({i \in DOMAIN arg : arg[i] = "\""})
        /\ ~NeedsQuoting(arg) => out = arg
        /\ Unescape(out) = arg
        /\ BareCount(out, FALSE, {",", "\n"}) = 0
        /\ BareCount(formatCsvRow(out, 35, -7, 1, 5, Null, Null), FALSE, {","}) = 6

\* A name with a quote and a comma in it has been escaped.
C24_Witness ==
    /\ fn = "escapeCsvValue"
    /\ \E i \in DOMAIN arg : arg[i] = "\""
    /\ \E i \in DOMAIN arg : arg[i] = ","
    /\ out # arg

CallsOf(call) == {i \in DOMAIN effects : effects[i].call = call}

Blank(label) == \A i \in DOMAIN label : label[i] \in {" ", "\t", "\n"}

\* C25: saveRoute with an empty or white-space-only name and deleteRoute with
\* such a title make no call into the storage service and leave a non-null
\* error in the hook state; no row with such a label is in the table.
C25_BlankLabelsRejected ==
    /\ (fn \in {"saveRoute", "deleteRoute"} /\ Blank(arg.title)) =>
          /\ effects = <<>>
          /\ managementError # Null
    /\ \A i \in DOMAIN rows : ~Blank(rows[i].title)

\* saveRoute was called on the mounted hook with a name of white space only
\* and with points to save.
C25_Witness ==
    /\ fn = "saveRoute"
    /\ storageServiceRef
    /\ arg.title # <<>> /\ Blank(arg.title)
    /\ arg.points # <<>>
    /\ effects = <<>>
    /\ managementError = Some("Invalid route data: name is required")


\* ---------------------------------------------------------------- tracking
CallsIn(made, call) == {i \in DOMAIN made : made[i].call = call}

\* The raw event has coords, latitude and longitude are numbers within
\* +-90 and +-180, and the timestamp is a number above 0.
AcceptableFix(locationData) ==
    /\ locationData.coords # Null
    /\ Val(locationData.coords).latitude # Null
    /\ Val(locationData.coords).longitude # Null
    /\ Val(Val(locationData.coords).latitude) >= -90
    /\ Val(Val(locationData.coords).latitude) <= 90
    /\ Val(Val(locationData.coords).longitude) >= -180
    /\ Val(Val(locationData.coords).longitude) <= 180
    /\ locationData.timestamp # Null
    /\ Val(locationData.timestamp) > 0

\* C26: with event handlers set, handleLocationUpdate makes exactly one
\* handler call: onLocationUpdate with the transformed sample iff the event
\* has coords, latitude and longitude in range and a timestamp above 0,
\* otherwise onError with LOCATION_UNAVAILABLE and no sample.
C26_OneHandlerCall ==
    (fn = "handleLocationUpdate" /\ events) =>
        /\ Len(effects) = 1
        /\ IF AcceptableFix(arg)
           THEN /\ effects[1].call = "onLocationUpdate"
                /\ out # Null
                /\ Val(out).latitude = Val(Val(arg.coords).latitude)
                /\ Val(out).longitude = Val(Val(arg.coords).longitude)
                /\ Val(out).timestamp = Val(arg.timestamp)
           ELSE /\ effects[1] = HandlerCall("onError", "LOCATION_UNAVAILABLE")
                /\ out = Null

\* An event with latitude 91 was reported to onError and to nobody else.
C26_Witness ==
    /\ fn = "handleLocationUpdate" /\ events
    /\ arg.coords # Null /\ Val(arg.coords).latitude = Some(91)
    /\ arg.timestamp = Some(1000)
    /\ CallsIn(effects, "onError") = {1}
    /\ CallsIn(effects, "onLocationUpdate") = {}

\* The statuses published by a call, in order.
Published(made) ==
    LET changes == SelectSeq(made, LAMBDA e : e.call = "onStatusChange")
    IN  [i \in DOMAIN changes |-> changes[i].with]

\* C27: startTracking with a configuration publishes STARTING first and ends
\* at RUNNING if the location services are enabled, the foreground
\* permission is granted and the position watch was established, and at ERROR
\* otherwise, never at STARTING; with a null configuration it emits
\* CONFIGURATION_ERROR and leaves the status as it was.
C27_StartEndsRunningOrError ==
    [][fn' = "startTracking" =>
        IF arg'.config = Null
        THEN /\ status' = status
             /\ events => effects' = <<HandlerCall("onError", "CONFIGURATION_ERROR")>>
        ELSE /\ status' \in {"running", "error"}
             /\ status' = "running" <=>
                    /\ arg'.api.services = "enabled"
                    /\ arg'.api.foreground = "granted"
                    /\ CallsIn(effects', "watchPositionAsync") # {}
                    /\ arg'.api.watch = "ok"
                    /\ locationSubscription' # Null
             /\ (/\ arg'.api.services = "enabled" /\ arg'.api.foreground = "granted"
                 /\ arg'.api.background = "granted" /\ arg'.api.watch = "ok")
                    => status' = "running"
             /\ events =>
                    /\ Len(Published(effects')) = 2
                    /\ Published(effects')[1] = "starting"
                    /\ Published(effects')[2] = status'
    ]_vars

\* A start with the location services off, handlers set: STARTING then ERROR
\* were published.
C27_Witness ==
    /\ fn = "startTracking" /\ events
    /\ arg.config # Null /\ arg.api.services = "disabled"
    /\ status = "error"
    /\ Published(effects) = <<"starting", "error">>

\* The configuration the service holds.
ConfigNow == IF storedConfig = Null THEN Null ELSE Some(heap[Val(storedConfig)])

BackgroundNow == ConfigNow # Null /\ Val(ConfigNow).enableBackground = Some(TRUE)

C29_ConfigureStoresCopy ==
    [][/\ (fn' = "configure" /\ ~validateConfig(arg')) =>
             /\ storedConfig' = storedConfig
             /\ ConfigNow' = ConfigNow
             /\ events => effects' = <<HandlerCall("onError", "CONFIGURATION_ERROR")>>
       /\ (fn' = "configure" /\ validateConfig(arg')) =>
             /\ ConfigNow' = arg'
             /\ effects' = <<>>
       /\ fn' = "getConfig" =>
             /\ out' = Null <=> storedConfig = Null
             /\ out' # Null => Some(heap'[Val(out')]) = ConfigNow
             /\ ConfigNow' = ConfigNow
       /\ fn' = "mutate" => ConfigNow' = ConfigNow
    ]_vars

\* The caller has changed the object it passed to configure, and the
\* stored configuration differs from it.
C29_Witness ==
    /\ fn = "mutate" /\ arg = Some("passed")
    /\ ConfigNow # Null
    /\ validateConfig(Some(heap["passed"]))
    /\ heap["passed"].enableBackground # Val(ConfigNow).enableBackground
    /\ heap["passed"].accuracy = Val(ConfigNow).accuracy


\* ------------------------------------------------------ route loading
\* C31: isLoading is true in every state in which a loadRoutes call is in
\* flight and false in every state in which none is, also when several
\* loadRoutes / refreshRoutes calls overlap.
C31_LoadingTracksInFlight == isLoading <=> loadsInFlight > 0

\* C34: on a mounted hook no storage operation issued by saveRoute,
\* deleteRoute or loadRoutes fails with 'Database not initialized' (so that
\* a route saved under a valid name is in the routes state after the next
\* loadRoutes).
C34_HookInitializesStorage ==
    /\ (fn \in {"saveRoute", "deleteRoute"} /\ effects # <<>>) => out # NotInitialized
    /\ fn = "loadRoutesSettled" => out # NotInitialized


\* ------------------------------------------------------ atomic creation
\* The row the INSERT of createFootprint makes of a point: the columns of
\* row f are the label and the fields of point p.
RowOfPoint(f, label, p) ==
    /\ f.title = label
    /\ f.latitude = p.latitude /\ f.longitude = p.longitude
    /\ f.accuracy = p.accuracy /\ f.speed = p.speed /\ f.direction = p.heading
    /\ f.timestamp = toISOString(p.timestamp)

\* C33: createFootprint either adds one row per given point under the label,
\* in the given order, after the rows there were, and returns the number of
\* points, or it fails and leaves the table as it was.
C33_CreateIsAtomic ==
    [][StorageCall("createFootprint") =>
          \/ /\ out'.ok
             /\ out'.value = Len(arg'.points)
             /\ Len(rows') = Len(rows) + Len(arg'.points)
             /\ SubSeq(rows', 1, Len(rows)) = rows
             /\ \A i \in DOMAIN arg'.points :
                    RowOfPoint(rows'[Len(rows) + i], arg'.title, arg'.points[i])
          \/ /\ ~out'.ok
             /\ rows' = rows]_vars

\* The second INSERT of a createFootprint of two points failed after the
\* first one had run, and the table holds no row.
C33_Witness ==
    /\ fn = "createFootprint"
    /\ tableCreated
    /\ Len(arg.points) = 2
    /\ out = SqlError
    /\ sqlCalls = 3
    /\ rows = <<>>


\* ------------------------------------------------- tracking, configuration
\* C38: startTracking with a configuration validateConfig rejects does not
\* subscribe to position updates and does not reach RUNNING, and the
\* service is never RUNNING while its stored configuration is null or
\* invalid.
C38_InvalidConfigNeverStarts ==
    /\ (fn = "startTracking" /\ ~validateConfig(arg.config)) =>
          /\ CallsIn(effects, "watchPositionAsync") = {}
          /\ status # "running"
    /\ status = "running" => validateConfig(ConfigNow)


\* ---------------------------------------------------- failed initialize
\* C39: an initialize() that fails, no initialize() having succeeded before,
\* leaves the service without a database, and every operation called while
\* no initialize() has succeeded and none is running fails with 'Database
\* not initialized' and makes no call into SQLite.
C39_FailedInitializeLeavesUninitialized ==
    [][/\ (initPc = "opened" /\ initPc' = "idle" /\ ~initDone') => database' = Null
       /\ \A op \in StorageOps :
              (StorageCall(op) /\ initPc = "idle" /\ ~initDone) =>
                  out' = NotInitialized /\ sqlCalls' = 0]_vars


\* ------------------------------------------------------------ collection
\* The stopCollection call id is awaiting stopTracking.
StopInFlight(id) == \E k \in DOMAIN stopsInFlight : stopsInFlight[k] = id

\* C32: every stopCollection call on a mounted hook goes on after
\* stopTracking, whether that ended at STOPPED or at ERROR; it eventually
\* completes, and when it completes the store is in its initial state, the
\* samples delivered while it was in progress included.
C32_StopIsUnconditional ==
    /\ [][/\ (fn' = "stopCollection" /\ events) =>
                Len(stopsInFlight') = Len(stopsInFlight) + 1
          /\ fn' = "stopCollectionSettled" =>
                /\ FootprintState' = initialState
                /\ stopsInFlight' = Tail(stopsInFlight)]_vars
    /\ \A id \in 1..MaxStops : StopInFlight(id) ~> ~StopInFlight(id)

\* A stopCollection whose stopTracking ended at ERROR has completed; a
\* sample had been delivered and stored while it was in progress, and the
\* store is in its initial state.
C32_Witness ==
    /\ fn = "stopCollectionSettled"
    /\ status = "error"
    /\ "stopping" \in DOMAIN arg
    /\ arg.stopping
    /\ Val(out) > 0
    /\ FootprintState = initialState
    /\ stopsInFlight = <<>>

\* C35: when a startCollection call has completed, no other call being in
\* progress, and the store has isCollecting = true, the service is RUNNING.
C35_CollectingOnlyWhileRunning ==
    (/\ fn = "startTracking" /\ out = Some("done")
     /\ startsInFlight = <<>> /\ stopsInFlight = <<>>
     /\ isCollecting) => status = "running"

\* C36: the platform holds at most one position watch of the service, and
\* no delivered sample is in the session twice.
C36_OneActiveWatch ==
    /\ activeWatches <= 1
    /\ \A i, j \in DOMAIN locationPoints :
           i # j => locationPoints[i].timestamp # locationPoints[j].timestamp

\* C37: when stopCollection was called while a start was in flight, no
\* startCollection was called afterwards and every call has completed,
\* the platform holds no position watch and the service is not RUNNING.
C37_StopWinsOverStart ==
    (overtaken /\ startsInFlight = <<>> /\ stopsInFlight = <<>>) =>
        activeWatches = 0 /\ status # "running"


\* ------------------------------------------------------------ stale routes
\* Every deleteRoute call leaves an error in the hook state, and the routes
\* state is empty throughout: the hook's storage service has no database.
HookDeleteNeverSucceeds ==
    /\ fn = "deleteRoute" => managementError # Null
    /\ stateRoutes = <<>>
====
